---- MODULE Spec2Model ----
(***************************************************************************)
(* Model of the pystencils kernel code-generation pipeline:                *)
(*   - the SIMD vectorization pass (pystencils/cpu/vectorization.py and    *)
(*     its older variant cpu/vectorization.py),                            *)
(*   - the C backend printer (backends/cbackend.py): the process-wide      *)
(*     instruction-set selector and the printing of piecewise expressions, *)
(*   - the derivation of the iteration slice in create_cuda_kernel.        *)
(* Each part has its own specification over its own variables; the other   *)
(* variables stay at their initial values.                                 *)
(***************************************************************************)
EXTENDS Integers, Sequences, FiniteSets, TLC

VARIABLES
    kin,        \* vectorize: the kernel as built (loop bounds, accesses, field dtypes)
    kernel,     \* vectorize: the mutable tree (loops, inner stride, instruction_set)
    call,       \* vectorize: number of calls made, arguments and outcome of the last
    selector,   \* VectorType.instruction_set, the process-wide selector
    stacks,     \* per thread: the active CBackend.__call__ frames, innermost last
    done,       \* the finished CBackend.__call__ invocations
    pw,         \* the piecewise expression handed to the sympy printer
    pwOut,      \* what printing it gave
    cin,        \* create_cuda_kernel: shape and relative field accesses
    cout,       \* create_cuda_kernel: ghost layers and iteration slice derived
    fnIn,       \* the argument of a transformation or printer method taken alone
    fnOut       \* what the method gave for it

vars == <<kin, kernel, call, selector, stacks, done, pw, pwOut, cin, cout, fnIn, fnOut>>
vecVars == <<kin, kernel, call>>
printVars == <<selector, stacks, done>>
pwVars == <<pw, pwOut>>
cudaVars == <<cin, cout>>
fnVars == <<fnIn, fnOut>>

(***************************************************************************)
(* Bounds of the model.                                                    *)
(***************************************************************************)
MaxStart == 1      \* loop starts 0..MaxStart
MaxLen == 10       \* loop lengths 0..MaxLen
MaxCalls == 2      \* vectorize calls on one kernel
MaxPrints == 3     \* CBackend.__call__ invocations of one thread printing alone
MaxConcPrints == 2 \* CBackend.__call__ invocations of two threads together
MaxDepth == 2      \* print calls nested in one thread
MaxBranches == 3   \* branches of a piecewise expression
NLanes == 2        \* lanes of a vector in the piecewise evaluation
MaxShape == 5      \* cells per dimension of a field
MaxOff == 2        \* largest offset component of a field access
MaxShift == 2      \* largest constant shift of an access index from the loop counter
MaxExprDepth == 3  \* nesting depth of a right-hand side expression
MaxStmts == 3      \* statements of a block
MaxExp == 9        \* largest absolute value of a literal exponent

NoOutput == [status |-> "none"]
NoText == [op |-> "none"]

Max(S) == CHOOSE x \in S : \A y \in S : y <= x

(***************************************************************************)
(* Part 1: vectorize                                                       *)
(***************************************************************************)
is_float(t) == t \in {"float32", "float64"}
itemsize(t) == IF t = "float64" THEN 8 ELSE 4
InstructionSets == {"avx"}

\* get_vector_instruction_set(...)['width']: the register width in bytes
\* (16 for sse, 32 for avx) over the element size
VectorWidth(float_size, is) == (IF is = "sse" THEN 16 ELSE 32) \div float_size

modulo_floor(a, b) == (a \div b) * b
modulo_ceil(a, b) == IF a % b = 0 THEN a ELSE ((a \div b) + 1) * b

\* The index shapes of the body's accesses: the loop counter plus a constant,
\* the loop counter scaled, or no loop counter at all.
AccessSets == { {"ctr", "ctr+1"}, {"ctr", "const"}, {"ctr", "2*ctr"} }
ContainsCounter(a) == a \in {"ctr", "ctr+1", "2*ctr"}
\* loop_counter_symbol not in (index - loop_counter_symbol).atoms()
loop_counter_is_offset(a) == a \in {"ctr", "ctr+1"}

LoopNode(a, b) == [kind |-> "loop", start |-> a, stop |-> b, step |-> 1, wraps |-> 0]

\* One piece [a, b) of a loop that is cut.  With literal bounds an empty piece
\* gives no node and a single iteration gives the body with the counter
\* substituted; symbolic bounds always give a loop.
CutPiece(n, a, b) ==
    IF kin.literal /\ b - a = 0 THEN << >>
    ELSE IF kin.literal /\ b - a = 1
         THEN << [n EXCEPT !.kind = "body", !.start = a, !.stop = b] >>
         ELSE << [n EXCEPT !.start = a, !.stop = b] >>

\* cut_loop(loop_node, [cutting_point]): the nodes replacing loop_node
cut_loop(n, cp) == CutPiece(n, n.start, cp) \o CutPiece(n, cp, n.stop)

SelectLoops(ns) == SelectSeq(ns, LAMBDA x : x.kind = "loop")

\* Lines 105-132 on the loop chosen for vectorization: the offset test on
\* every access that contains the counter, then the step and the
\* substitution of the accesses by vector_memory_access.
AdaptLoadStores(n, w) ==
    IF \E a \in kin.acc : ContainsCounter(a) /\ ~loop_counter_is_offset(a)
    THEN [node |-> n, warn |-> TRUE]
    ELSE [node |-> [n EXCEPT !.step = w,
                             !.wraps = IF \E a \in kin.acc : ContainsCounter(a)
                                       THEN @ + 1 ELSE @],
          warn |-> FALSE]

ReplaceFirstLoop(ns, m) ==
    LET k == CHOOSE i \in 1..Len(ns) :
                 ns[i].kind = "loop" /\ \A j \in 1..(i-1) : ns[j].kind # "loop"
    IN [ns EXCEPT ![k] = m]

\* The body of "for loop_node in inner_loops" for one loop.
\* filtered: the new variant keeps only the LoopOverCoordinate nodes of
\* cut_loop's result; the old variant takes its first node as it is.
ProcessLoop(n, w, aligned, padding, filtered) ==
    IF aligned /\ padding
    THEN LET n1 == [n EXCEPT !.stop = n.start + modulo_ceil(n.stop - n.start, w)]
             r == AdaptLoadStores(n1, w)
         IN [nodes |-> << r.node >>, warn |-> r.warn, err |-> ""]
    ELSE IF n.step # 1
    THEN [nodes |-> << n >>, warn |-> FALSE, err |-> "NotImplementedError"]
    ELSE LET cutting_point == modulo_floor(n.stop - n.start, w) + n.start
             pieces == cut_loop(n, cutting_point)
             loop_nodes == IF filtered THEN SelectLoops(pieces) ELSE pieces
         IN IF Len(loop_nodes) = 0
            THEN [nodes |-> pieces, warn |-> FALSE,
                  err |-> IF filtered THEN "" ELSE "AssertionError"]
            ELSE IF loop_nodes[1].kind # "loop"
            THEN [nodes |-> pieces, warn |-> FALSE, err |-> "AttributeError"]
            ELSE LET r == AdaptLoadStores(loop_nodes[1], w)
                 IN [nodes |-> ReplaceFirstLoop(pieces, r.node),
                     warn |-> r.warn, err |-> ""]

\* vectorize_inner_loops_and_adapt_load_stores: the innermost loops of the
\* tree as it is on entry, in tree order; an exception leaves the rest as is.
RECURSIVE InnerLoopsFrom(_, _, _, _, _, _)
InnerLoopsFrom(ns, k, w, aligned, padding, filtered) ==
    IF k > Len(ns) THEN [nodes |-> << >>, warn |-> FALSE, err |-> ""]
    ELSE IF ns[k].kind # "loop"
    THEN LET rest == InnerLoopsFrom(ns, k + 1, w, aligned, padding, filtered)
         IN [rest EXCEPT !.nodes = << ns[k] >> \o @]
    ELSE LET p == ProcessLoop(ns[k], w, aligned, padding, filtered)
         IN IF p.err # ""
            THEN [nodes |-> p.nodes \o SubSeq(ns, k + 1, Len(ns)),
                  warn |-> FALSE, err |-> p.err]
            ELSE LET rest == InnerLoopsFrom(ns, k + 1, w, aligned, padding, filtered)
                 IN [nodes |-> p.nodes \o rest.nodes,
                     warn |-> p.warn \/ rest.warn, err |-> rest.err]

vectorize_inner_loops_and_adapt_load_stores(ns, w, aligned, padding, filtered) ==
    InnerLoopsFrom(ns, 1, w, aligned, padding, filtered)

\* replace_inner_stride_with_one: a symbolic inner stride becomes the literal 1
replace_inner_stride_with_one(s) == IF s = "sym" THEN "one" ELSE s

Args(is, aligned, strideOne, padding, legacy) ==
    [is |-> is, aligned |-> aligned, strideOne |-> strideOne,
     padding |-> padding, legacy |-> legacy]

\* What vectorize does once the float types were collected.
VectorizeBody(k, floats, a) ==
    IF Cardinality(floats) # 1
    THEN [kernel |-> k, warn |-> FALSE, err |-> "NotImplementedError"]
    ELSE LET float_size == itemsize(CHOOSE t \in floats : TRUE)
             w == VectorWidth(float_size, a.is)
             r == vectorize_inner_loops_and_adapt_load_stores(
                      k.loops, w, a.aligned, a.padding, ~a.legacy)
         IN [kernel |-> [k EXCEPT !.instruction_set = [name |-> a.is, width |-> w],
                                  !.loops = r.nodes],
             warn |-> r.warn, err |-> r.err]

\* pystencils/cpu/vectorization.py: vectorize
vectorize(is, aligned, strideOne, padding) ==
    /\ call.n < MaxCalls
    /\ LET a == Args(is, aligned, strideOne, padding, FALSE)
       IN IF is = "None"
          THEN /\ call' = [n |-> call.n + 1, args |-> a, outcome |-> "ok", warned |-> FALSE]
               /\ UNCHANGED kernel
          ELSE LET k1 == IF strideOne
                         THEN [kernel EXCEPT !.innerStride = replace_inner_stride_with_one(@)]
                         ELSE kernel
                   r == VectorizeBody(k1, {t \in kin.fieldTypes : is_float(t)}, a)
               IN /\ kernel' = r.kernel
                  /\ call' = [n |-> call.n + 1, args |-> a,
                              outcome |-> IF r.err = "" THEN "ok" ELSE r.err,
                              warned |-> r.warn]
    /\ UNCHANGED <<kin, printVars, pwVars, cudaVars, fnVars>>

\* cpu/vectorization.py: vectorize (the older variant: always splits, takes
\* every field dtype as a float type since is_float is not called)
vectorize_legacy(is, aligned) ==
    /\ call.n < MaxCalls
    /\ LET a == Args(is, aligned, FALSE, FALSE, TRUE)
           r == VectorizeBody(kernel, kin.fieldTypes, a)
       IN /\ kernel' = r.kernel
          /\ call' = [n |-> call.n + 1, args |-> a,
                      outcome |-> IF r.err = "" THEN "ok" ELSE r.err,
                      warned |-> r.warn]
    /\ UNCHANGED <<kin, printVars, pwVars, cudaVars, fnVars>>

NoCall == [n |-> 0, args |-> Args("None", FALSE, FALSE, FALSE, FALSE),
           outcome |-> "none", warned |-> FALSE]

\* The element types of the fields a kernel accesses.
FieldTypeSets == { {"float64"}, {"float32"}, {"float32", "float64"},
                   {"float64", "int32"}, {"int32"} }

KernelInputs ==
    [literal : BOOLEAN, acc : AccessSets, fieldTypes : FieldTypeSets,
     start : 0..MaxStart, len : 0..MaxLen]

IdleKin == [literal |-> TRUE, acc |-> {"ctr", "const"}, fieldTypes |-> {"float64"},
            start |-> 0, len |-> 0]
IdleKernel == [loops |-> << >>, innerStride |-> "fixed", instruction_set |-> "None"]

InitVec ==
    /\ kin \in KernelInputs
    /\ kernel = [loops |-> << LoopNode(kin.start, kin.start + kin.len) >>,
                 innerStride |-> IF kin.literal THEN "fixed" ELSE "sym",
                 instruction_set |-> "None"]
    /\ call = NoCall
    /\ selector = "None" /\ stacks = << >> /\ done = << >>
    /\ pw = << >> /\ pwOut = NoOutput
    /\ cin = << >> /\ cout = NoOutput
    /\ fnIn = << >> /\ fnOut = NoOutput

NextVec ==
    \/ \E is \in InstructionSets, aligned, strideOne, padding \in BOOLEAN :
           vectorize(is, aligned, strideOne, padding)
    \/ vectorize("None", FALSE, FALSE, FALSE)
    \/ \E is \in InstructionSets, aligned \in BOOLEAN : vectorize_legacy(is, aligned)

SpecVec == InitVec /\ [][NextVec]_vars

(***************************************************************************)
(* The cells a loop nest touches, for the claims about vectorize.          *)
(***************************************************************************)
Iterations(n) ==
    IF n.kind = "body" THEN {n.start}
    ELSE {i \in n.start..(n.stop - 1) : (i - n.start) % n.step = 0}

\* A loop whose accesses are vector accesses covers step lanes per iteration.
LanesOf(n) == IF n.kind = "loop" /\ n.wraps > 0 THEN n.step ELSE 1

Touches(n, i) == Cardinality({j \in Iterations(n) : j <= i /\ i < j + LanesOf(n)})

RECURSIVE TouchCount(_, _)
TouchCount(ns, i) ==
    IF ns = << >> THEN 0 ELSE Touches(Head(ns), i) + TouchCount(Tail(ns), i)

Cells == 0..(MaxStart + MaxLen + 2 * VectorWidth(4, "avx"))
OrigStop == kin.start + kin.len

\* every cell of the original loop exactly once and no other cell
CoversOriginalRange(ns) ==
    \A i \in Cells :
        TouchCount(ns, i) = IF kin.start <= i /\ i < OrigStop THEN 1 ELSE 0

FloatTypes == {t \in kin.fieldTypes : is_float(t)}
AllPassOffsetTest == \A a \in kin.acc : ContainsCounter(a) => loop_counter_is_offset(a)
SplitMode(a) == ~(a.aligned /\ a.padding)
FirstCallDone == call.n = 1 /\ call.args.is # "None"

\* C1: in split mode, when every access passes the offset test, the main
\* loop (step w, w lanes per iteration) and the scalar tail loop together
\* touch every index of [start, stop) exactly once and no index outside it.
C1_SplitTouchesEachCellOnce ==
    (FirstCallDone /\ call.outcome = "ok" /\ SplitMode(call.args) /\ AllPassOffsetTest)
        => CoversOriginalRange(kernel.loops)

\* C2: an access with the loop counter not as a plain additive offset makes
\* vectorize (new variant) warn and not raise, and leaves the loop scalar and
\* valid: step 1, no vector access, the iterated indices are [start, stop);
\* for every combination of assume_aligned and assume_sufficient_line_padding.
C2_NonOffsetAccessLeavesLoopScalar ==
    (FirstCallDone /\ ~call.args.legacy /\ Cardinality(FloatTypes) = 1
         /\ ~AllPassOffsetTest)
        => /\ call.outcome = "ok"
           /\ (\E k \in 1..Len(kernel.loops) : kernel.loops[k].kind = "loop")
                  => call.warned
           /\ \A k \in 1..Len(kernel.loops) :
                  kernel.loops[k].step = 1 /\ kernel.loops[k].wraps = 0
           /\ CoversOriginalRange(kernel.loops)

\* C3: without exactly one floating-point field type vectorize (new variant)
\* raises NotImplementedError before any rewriting: no stride replaced, no
\* instruction set attached, no loop bound, step or access modified, also
\* with assume_inner_stride_one.
C3_MixedPrecisionRaisesBeforeRewriting ==
    [][(call'.n = call.n + 1 /\ ~call'.args.legacy /\ call'.args.is # "None"
            /\ Cardinality(FloatTypes) # 1)
        => (call'.outcome = "NotImplementedError" /\ kernel' = kernel)]_vars

Vectorized(k) ==
    \E i \in 1..Len(k.loops) : k.loops[i].kind = "loop" /\ k.loops[i].step > 1
                                   /\ k.loops[i].wraps > 0

\* C4: a second vectorize call on a kernel that a first call vectorized
\* successfully fails with an error and leaves the loops as they were: no new
\* split, no step set again, no vector access wrapped a second time.
C4_SecondCallFailsFast ==
    [][(call.n >= 1 /\ call.outcome = "ok" /\ ~call.warned /\ Vectorized(kernel)
            /\ call'.n = call.n + 1 /\ call'.args.is # "None")
        => (call'.outcome \notin {"ok", "none"} /\ kernel'.loops = kernel.loops)]_vars

(***************************************************************************)
(* Part 2: CBackend.__call__ and VectorType.instruction_set                *)
(***************************************************************************)
\* The values of the selector and of a printer's _vectorInstructionSet
SelectorValues == {"None", "sse", "avx"}
\* How a traversal fails: _print finds no method for the node type
\* (NotImplementedError), _print_Pow meets a generic exponent or
\* _print_Piecewise a non-total piecewise (ValueError)
PrintFailures == {"NotImplementedError", "ValueError"}

Threads == DOMAIN stacks
Top(t) == stacks[t][Len(stacks[t])]
Active(t) == Len(stacks[t]) > 0

RECURSIVE SumLen(_, _)
SumLen(st, k) == IF k = 0 THEN 0 ELSE Len(st[k]) + SumLen(st, k - 1)
Started == Len(done) + SumLen(stacks, Len(stacks))

SetTop(t, f) == [stacks EXCEPT ![t] = [@ EXCEPT ![Len(@)] = f]]

\* Another thread writes v to the selector: every active frame of the other
\* threads has overlapped a foreign write; one that is traversing with
\* another instruction set has seen a foreign selector.
MarkFrame(f, v) ==
    [f EXCEPT !.mixed = TRUE,
              !.foreign = @ \/ (f.pc = "traverse" /\ v # f.is)]
MarkOthers(st, t, v) ==
    [u \in DOMAIN st |->
        IF u = t THEN st[u]
        ELSE [k \in DOMAIN st[u] |-> MarkFrame(st[u][k], v)]]

Finished(t, f, how) ==
    [t |-> t, is |-> f.is, entry |-> f.entry, exit |-> selector', how |-> how,
     depth |-> f.depth, seq |-> f.seq, mixed |-> f.mixed, foreign |-> f.foreign]

PrintBound == IF Len(stacks) = 1 THEN MaxPrints ELSE MaxConcPrints

Frame(t, is) ==
    [is |-> is, prev |-> "unset", entry |-> selector, pc |-> "save",
     depth |-> Len(stacks[t]) + 1, seq |-> Started,
     mixed |-> FALSE, foreign |-> FALSE]

\* printer(node) is called
Call(t, is) ==
    /\ Started < PrintBound
    /\ ~Active(t)
    /\ stacks' = [stacks EXCEPT ![t] = Append(@, Frame(t, is))]
    /\ UNCHANGED <<selector, done, vecVars, pwVars, cudaVars, fnVars>>

\* printer(node) is called while another print call of the thread traverses
NestedCall(t, is) ==
    /\ Started < PrintBound
    /\ Active(t) /\ Top(t).pc = "traverse"
    /\ Len(stacks[t]) < MaxDepth
    /\ stacks' = [stacks EXCEPT ![t] = Append(@, Frame(t, is))]
    /\ UNCHANGED <<selector, done, vecVars, pwVars, cudaVars, fnVars>>

\* mutant of Save: the selector is read after it was set (lines 118 and 119
\* swapped), so the printer's own instruction set is what gets restored
Save_AfterSet(t) ==
    /\ Active(t) /\ Top(t).pc = "save"
    /\ stacks' = SetTop(t, [Top(t) EXCEPT !.prev = Top(t).is, !.pc = "set"])
    /\ UNCHANGED <<selector, done, vecVars, pwVars, cudaVars, fnVars>>

\* line 118: prev_is = VectorType.instruction_set
Save(t) ==
    /\ Active(t) /\ Top(t).pc = "save"
    /\ stacks' = SetTop(t, [Top(t) EXCEPT !.prev = selector, !.pc = "set"])
    /\ UNCHANGED <<selector, done, vecVars, pwVars, cudaVars, fnVars>>

\* line 119: VectorType.instruction_set = self._vectorInstructionSet
Set(t) ==
    /\ Active(t) /\ Top(t).pc = "set"
    /\ selector' = Top(t).is
    /\ stacks' = MarkOthers(SetTop(t, [Top(t) EXCEPT !.pc = "traverse"]), t, selector')
    /\ UNCHANGED <<done, vecVars, pwVars, cudaVars, fnVars>>

\* line 120: str(self._print(node)) returns
TraverseDone(t) ==
    /\ Active(t) /\ Top(t).pc = "traverse"
    /\ stacks' = SetTop(t, [Top(t) EXCEPT !.pc = "restore"])
    /\ UNCHANGED <<selector, done, vecVars, pwVars, cudaVars, fnVars>>

RECURSIVE Unwound(_, _, _)
Unwound(t, fs, how) ==
    IF fs = << >> THEN << >>
    ELSE Append(Unwound(t, SubSeq(fs, 1, Len(fs) - 1), how),
                Finished(t, fs[Len(fs)], how))

\* line 120: self._print(node) raises; the exception leaves __call__ and
\* every print call around it in this thread
TraverseFail(t, err) ==
    /\ Active(t) /\ Top(t).pc = "traverse"
    /\ selector' = selector
    /\ done' = done \o Unwound(t, stacks[t], err)
    /\ stacks' = [stacks EXCEPT ![t] = << >>]
    /\ UNCHANGED <<vecVars, pwVars, cudaVars, fnVars>>

\* mutant of Restore: line 121 is missing, the call returns without restoring
Restore_Missing(t) ==
    /\ Active(t) /\ Top(t).pc = "restore"
    /\ selector' = selector
    /\ done' = Append(done, Finished(t, Top(t), "returned"))
    /\ stacks' = [stacks EXCEPT ![t] = SubSeq(@, 1, Len(@) - 1)]
    /\ UNCHANGED <<vecVars, pwVars, cudaVars, fnVars>>

\* lines 121-122: VectorType.instruction_set = prev_is; return result
Restore(t) ==
    /\ Active(t) /\ Top(t).pc = "restore"
    /\ selector' = Top(t).prev
    /\ done' = Append(done, Finished(t, Top(t), "returned"))
    /\ stacks' = MarkOthers([stacks EXCEPT ![t] = SubSeq(@, 1, Len(@) - 1)], t, selector')
    /\ UNCHANGED <<vecVars, pwVars, cudaVars, fnVars>>

InitPrint ==
    /\ selector \in SelectorValues /\ stacks = << << >> >> /\ done = << >>
    /\ kin = IdleKin /\ kernel = IdleKernel /\ call = NoCall
    /\ pw = << >> /\ pwOut = NoOutput
    /\ cin = << >> /\ cout = NoOutput
    /\ fnIn = << >> /\ fnOut = NoOutput

InitPrintConc ==
    /\ selector \in SelectorValues /\ stacks = << << >>, << >> >> /\ done = << >>
    /\ kin = IdleKin /\ kernel = IdleKernel /\ call = NoCall
    /\ pw = << >> /\ pwOut = NoOutput
    /\ cin = << >> /\ cout = NoOutput
    /\ fnIn = << >> /\ fnOut = NoOutput

NextPrint ==
    \/ \E t \in Threads, is \in SelectorValues : Call(t, is)
    \/ \E t \in Threads, is \in SelectorValues : NestedCall(t, is)
    \/ \E t \in Threads : Save(t)
    \/ \E t \in Threads : Set(t)
    \/ \E t \in Threads : TraverseDone(t)
    \/ \E t \in Threads, err \in PrintFailures : TraverseFail(t, err)
    \/ \E t \in Threads : Restore(t)

NextPrintConc ==
    \/ \E t \in Threads, is \in SelectorValues : Call(t, is)
    \/ \E t \in Threads : Save(t)
    \/ \E t \in Threads : Set(t)
    \/ \E t \in Threads : TraverseDone(t)
    \/ \E t \in Threads, err \in PrintFailures : TraverseFail(t, err)
    \/ \E t \in Threads : Restore(t)

\* one thread, print calls may nest
SpecPrint == InitPrint /\ [][NextPrint]_vars
\* two threads print at the same time
SpecPrintConc == InitPrintConc /\ [][NextPrintConc]_vars

\* C5: in every print call that returns normally the selector holds the
\* printer's instruction set while the call traverses, and after the return
\* it holds the value it had immediately before the call, also for nested
\* print calls.
C5_SelectorPushPop ==
    /\ \A t \in Threads :
           (Active(t) /\ Top(t).pc \in {"traverse", "restore"}) => selector = Top(t).is
    /\ \A k \in 1..Len(done) :
           done[k].how = "returned" => done[k].exit = done[k].entry

\* a nested call and the call around it both returned, each under an
\* instruction set other than the one it found
C5_Witness ==
    \E j, k \in 1..Len(done) :
        /\ done[j].how = "returned" /\ done[j].depth = 2 /\ done[j].is # done[j].entry
        /\ done[k].how = "returned" /\ done[k].depth = 1 /\ done[k].is # done[k].entry

\* C6: when a print call ends in a failure, the selector is restored: after
\* the exception it equals its value from immediately before the call.
C6_SelectorRestoredOnFailure ==
    \A k \in 1..Len(done) :
        done[k].how \in PrintFailures => done[k].exit = done[k].entry

\* C7: the selector is unprotected shared state.  A print call returns with
\* the selector different from the value it found only when another thread
\* wrote the selector during the call; and with two interleaved calls of
\* different instruction sets that does happen (C7_Witness).
C7_SelectorRacesOnlyByInterleaving ==
    \A k \in 1..Len(done) :
        (done[k].how = "returned" /\ done[k].exit # done[k].entry) => done[k].mixed

\* two calls of different instruction sets, one per thread, both returned;
\* one traversed while the selector held the other's instruction set, and the
\* selector now differs from its value before either call started
C7_Witness ==
    /\ Len(done) = 2
    /\ \A t \in Threads : ~Active(t)
    /\ done[1].how = "returned" /\ done[2].how = "returned"
    /\ done[1].t # done[2].t /\ done[1].is # done[2].is
    /\ \E k \in 1..2 : done[k].foreign /\ selector = done[3 - k].is
    /\ \E k \in 1..2 : done[k].seq = 0 /\ selector # done[k].entry

(***************************************************************************)
(* Part 3: printing a piecewise expression                                 *)
(***************************************************************************)
Lanes == 1..NLanes
Masks == [Lanes -> BOOLEAN]
UniformMasks == {m \in Masks : \A l \in Lanes : m[l] = m[1]}
AllLanes == [l \in Lanes |-> TRUE]

\* A branch condition by the shape the printer looks at:
\*   "True"      the literal S.true                      (no args)
\*   "CastTrue"  cast_func(True, vector type)            (args[0] is S.true)
\*   "Cast"      cast_func(c, vector type), c not True
\*   "Rel"       a relational or boolean function        (args[0] is an operand)
\*   "RelTrue"   a relational whose first operand is S.true, as Eq(True, m)
\*   "Sym"       a bare boolean symbol                   (no args)
\* and the lanes in which it holds.
Cond(kind, mask) == [kind |-> kind, mask |-> mask]
CondMasks(vec) == IF vec THEN Masks ELSE UniformMasks
\* The conditions before the last: the printer prints them and looks at
\* nothing but the last condition's shape.
OpenConds(vec) == {Cond("Rel", m) : m \in CondMasks(vec)}
LastConds(vec) ==
    {Cond(k, m) : k \in (IF vec THEN {"Cast", "Rel", "RelTrue", "Sym"}
                         ELSE {"Rel", "RelTrue", "Sym"}),
                  m \in CondMasks(vec)}
        \cup (IF vec THEN {Cond("True", AllLanes), Cond("CastTrue", AllLanes)}
              ELSE {Cond("True", AllLanes)})

\* Piecewise(...) keeps nothing after a True condition: S.true is only ever
\* the last condition.  Branch k has the value k.
PiecewiseArgs(vec) ==
    UNION { { [k \in 1..n |-> [e |-> k, cond |-> IF k < n THEN c[k] ELSE last]] :
                c \in [1..(n-1) -> OpenConds(vec)], last \in LastConds(vec) } :
            n \in 1..MaxBranches }

Leaf(e) == [op |-> "val", e |-> e]
\* instruction_set['blendv'].format(a, b, m)
Blendv(a, b, m) == [op |-> "blendv", a |-> a, b |-> b, m |-> m]
Ternary(c, t, f) == [op |-> "?:", c |-> c, t |-> t, f |-> f]

\* C99CodePrinter._print_Piecewise: ((c1) ? e1 : ((c2) ? e2 : ... e_n))
RECURSIVE TernaryFrom(_, _)
TernaryFrom(args, k) ==
    IF k = Len(args) THEN Leaf(args[k].e)
    ELSE Ternary(args[k].cond.mask, Leaf(args[k].e), TernaryFrom(args, k + 1))

sympy_print_Piecewise(args) ==
    IF args[Len(args)].cond.kind # "True"
    THEN [status |-> "ValueError", text |-> NoText]
    ELSE [status |-> "text", text |-> TernaryFrom(args, 1)]

\* CustomSympyPrinter._print_Piecewise: the sympy text without newlines
Custom_print_Piecewise(args) == sympy_print_Piecewise(args)

\* mutant of ReversedInit: the branches before the last in source order
SourceOrderInit(args) == SubSeq(args, 1, Len(args) - 1)

\* reversed(expr.args[:-1])
ReversedInit(args) == [k \in 1..(Len(args) - 1) |-> args[Len(args) - k]]

RECURSIVE BlendFold(_, _, _)
BlendFold(result, rest, k) ==
    IF k > Len(rest) THEN result
    ELSE BlendFold(Blendv(result, Leaf(rest[k].e), rest[k].cond.mask), rest, k + 1)

\* expr.args[-1].cond.args[0]
CondArgs0(c) ==
    CASE c.kind \in {"True", "Sym"} -> "IndexError"
      [] c.kind \in {"CastTrue", "RelTrue"} -> "True"
      [] OTHER -> "operand"

\* VectorizedCustomSympyPrinter._print_Piecewise
Vectorized_print_Piecewise(vec, args) ==
    IF ~vec THEN Custom_print_Piecewise(args)        \* _scalarFallback
    ELSE LET a0 == CondArgs0(args[Len(args)].cond)
         IN IF a0 = "IndexError" THEN [status |-> "IndexError", text |-> NoText]
            ELSE IF a0 # "True" THEN [status |-> "ValueError", text |-> NoText]
            ELSE [status |-> "text",
                  text |-> BlendFold(Leaf(args[Len(args)].e), ReversedInit(args), 1)]

\* a CBackend with a vector instruction set prints the expression
PrintVectorized ==
    /\ pwOut = NoOutput
    /\ pwOut' = [printer |-> "vector"] @@ Vectorized_print_Piecewise(pw.vec, pw.args)
    /\ UNCHANGED <<pw, vecVars, printVars, cudaVars, fnVars>>

\* a CBackend without one prints the expression of a kernel not vectorized
PrintScalar ==
    /\ pwOut = NoOutput
    /\ ~pw.vec
    /\ pwOut' = [printer |-> "scalar"] @@ Custom_print_Piecewise(pw.args)
    /\ UNCHANGED <<pw, vecVars, printVars, cudaVars, fnVars>>

InitPiecewise ==
    /\ pw \in UNION { { [vec |-> v, args |-> a] : a \in PiecewiseArgs(v) } : v \in BOOLEAN }
    /\ pwOut = NoOutput
    /\ kin = IdleKin /\ kernel = IdleKernel /\ call = NoCall
    /\ selector = "None" /\ stacks = << >> /\ done = << >>
    /\ cin = << >> /\ cout = NoOutput
    /\ fnIn = << >> /\ fnOut = NoOutput

NextPiecewise == PrintVectorized \/ PrintScalar

SpecPiecewise == InitPiecewise /\ [][NextPiecewise]_vars

\* the value the printed expression has in a lane; blendv(a, b, m) takes b
\* in the lanes where m holds and a elsewhere
RECURSIVE Eval(_, _)
Eval(x, l) ==
    CASE x.op = "val" -> x.e
      [] x.op = "blendv" -> IF x.m[l] THEN Eval(x.b, l) ELSE Eval(x.a, l)
      [] x.op = "?:" -> IF x.c[l] THEN Eval(x.t, l) ELSE Eval(x.f, l)

\* the first branch in source order whose condition holds in the lane
FirstHolding(args, l) ==
    LET hold == {k \in 1..(Len(args) - 1) : args[k].cond.mask[l]}
    IN IF hold = {} THEN args[Len(args)].e
       ELSE args[CHOOSE k \in hold : \A j \in hold : k <= j].e

Printed == pwOut.status # "none"
LastCond == pw.args[Len(pw.args)].cond
LiterallyTrue(c) == c.kind \in {"True", "CastTrue"}

\* C8: a piecewise whose last condition is not literally True is rejected
\* with ValueError and no text, for any number of branches, on the vector
\* (blend) path and on the scalar (ternary) path.
C8_NonTotalPiecewiseRejected ==
    (Printed /\ ~LiterallyTrue(LastCond))
        => (pwOut.status = "ValueError" /\ pwOut.text = NoText)

\* C9: for a total vector-typed piecewise the nested blend expression has in
\* every lane the value of the first branch in source order whose condition
\* holds in that lane, and the value of the last branch where none holds.
C9_BlendSelectsFirstHoldingBranch ==
    (Printed /\ pw.vec /\ LiterallyTrue(LastCond) /\ pwOut.status = "text")
        => \A l \in Lanes : Eval(pwOut.text, l) = FirstHolding(pw.args, l)

\* three branches printed as blends: in lane 1 both conditions hold, in
\* lane 2 none does
C9_Witness ==
    /\ Printed /\ pw.vec /\ LiterallyTrue(LastCond)
    /\ pwOut.status = "text" /\ pwOut.text.op = "blendv"
    /\ Len(pw.args) = 3
    /\ pw.args[1].cond.mask[1] /\ pw.args[2].cond.mask[1]
    /\ ~pw.args[1].cond.mask[2] /\ ~pw.args[2].cond.mask[2]

(***************************************************************************)
(* Part 4: create_cuda_kernel, ghost layers and iteration slice            *)
(***************************************************************************)
Dims == 1..2
Abs(x) == IF x < 0 THEN 0 - x ELSE x
Offsets == [Dims -> (0 - MaxOff)..MaxOff]
\* the relative accesses of the assignments; none if all are absolute
AccessChoices == {{}} \cup {{a, b} : a, b \in Offsets}

\* Field.Access.required_ghost_layers: the largest absolute offset component
required_ghost_layers(fa) == Max({Abs(fa[d]) : d \in Dims})

\* mutant of SliceCells: the slice always runs to the end of the dimension
SliceCells_ToEnd(lo, hi, s) == {i \in 0..(s - 1) : lo <= i}

\* slice(lo, -hi if hi > 0 else None) over a dimension of s cells
SliceCells(lo, hi, s) ==
    {i \in 0..(s - 1) : lo <= i /\ i < (IF hi > 0 THEN s - hi ELSE s)}

\* lines 37-51.  how: ghost_layers is None ("None"), an int ("int", g the
\* number) or one pair per dimension ("pairs", g the pairs)
create_cuda_kernel(how, g) ==
    /\ cout = NoOutput
    /\ IF how = "None" /\ cin.acc = {}
       THEN cout' = [status |-> "ValueError", inferred |-> TRUE,
                     ghost_layers |-> << >>, slice |-> << >>]
       ELSE LET ghost_layers ==
                    IF how = "None"
                    THEN LET r == Max({required_ghost_layers(fa) : fa \in cin.acc})
                         IN [d \in Dims |-> << r, r >>]
                    ELSE IF how = "int" THEN [d \in Dims |-> << g, g >>]
                    ELSE g
            IN cout' = [status |-> "ok", inferred |-> how = "None",
                        ghost_layers |-> ghost_layers,
                        slice |-> [d \in Dims |->
                                      SliceCells(ghost_layers[d][1], ghost_layers[d][2],
                                                 cin.shape[d])]]
    /\ UNCHANGED <<cin, vecVars, printVars, pwVars, fnVars>>

InitCuda ==
    /\ cin \in [shape : [Dims -> 1..MaxShape], acc : AccessChoices]
    /\ cout = NoOutput
    /\ kin = IdleKin /\ kernel = IdleKernel /\ call = NoCall
    /\ selector = "None" /\ stacks = << >> /\ done = << >>
    /\ pw = << >> /\ pwOut = NoOutput
    /\ fnIn = << >> /\ fnOut = NoOutput

NextCuda ==
    \/ create_cuda_kernel("None", 0)
    \/ \E g \in 0..MaxOff : create_cuda_kernel("int", g)
    \/ \E g \in [Dims -> (0..1) \X (0..1)] : create_cuda_kernel("pairs", g)

SpecCuda == InitCuda /\ [][NextCuda]_vars

LargestOffset == Max({0} \cup {Abs(fa[d]) : fa \in cin.acc, d \in Dims})

\* C10: with neither iteration_slice nor ghost_layers given, every cell of
\* the derived iteration slice plus every relative access offset lies in
\* [0, shape_d) in every dimension d (shapes of at least 2r+1 cells, r the
\* largest absolute offset component).
C10_InferredSliceKeepsAccessesInBounds ==
    (cout.status = "ok" /\ cout.inferred
         /\ \A d \in Dims : cin.shape[d] >= 2 * LargestOffset + 1)
        => \A fa \in cin.acc : \A d \in Dims : \A c \in cout.slice[d] :
               0 <= c + fa[d] /\ c + fa[d] < cin.shape[d]

\* a stencil reaching back in one dimension and forward in the other, on a
\* shape with interior cells
C10_Witness ==
    /\ cout.status = "ok" /\ cout.inferred
    /\ LargestOffset = 2
    /\ \A d \in Dims : cin.shape[d] >= 2 * LargestOffset + 1 /\ cout.slice[d] # {}
    /\ \E fa \in cin.acc : fa[1] = 0 - LargestOffset
    /\ \E fa \in cin.acc : fa[2] = LargestOffset

\* the largest absolute offset component in dimension d over all accesses
DimOffset(d) == Max({0} \cup {Abs(fa[d]) : fa \in cin.acc})

\* C11: with inferred ghost layers the number of layers skipped on each side
\* of dimension d is the largest absolute offset in that same dimension d
\* over all accesses, and a skip count of 0 gives the full extent of d.
C11_GhostLayersPerDimension ==
    (cout.status = "ok" /\ cout.inferred)
        => \A d \in Dims :
               /\ cout.ghost_layers[d] = << DimOffset(d), DimOffset(d) >>
               /\ DimOffset(d) = 0 => cout.slice[d] = 0..(cin.shape[d] - 1)

(***************************************************************************)
(* Part 5: vector memory accesses, their marking and their intrinsics      *)
(***************************************************************************)
\* The nontemporal argument of vectorize: False, None, True, or a container
\* holding the accessed field, its name, or only other fields.
NontemporalArgs == {"False", "None", "True", "field", "name", "other"}

\* lines 58-61 and 125: (indexed.field in nontemporal_fields) or
\* (indexed.field.name in nontemporal_fields)
InNontemporalFields(arg) == arg \in {"True", "field", "name"}

\* An access index is loop counter + shift + outer * (outer loop counter).
\* (index - loop_counter_symbol).subs(zero_loop_counters) == 0
aligned_access(a) == a.shift + a.outer * 0 = 0

\* mutant of use_aligned_access: the caller's assumption is not consulted
use_aligned_access_Unassumed(a) == aligned_access(a)

\* line 122
use_aligned_access(a) == aligned_access(a) /\ a.assume_aligned

\* lines 123-126: the arguments of vector_memory_access(indexed, vec_type,
\* use_aligned_access, nontemporal)
vector_memory_access(a) ==
    [aligned |-> use_aligned_access(a),
     nontemporal |-> IF a.hasField THEN InNontemporalFields(a.nontemporal) ELSE FALSE]

\* CBackend._print_SympyAssignment, lines 168-171
StoreInstr(v) ==
    IF v.aligned THEN (IF v.nontemporal THEN "stream" ELSE "storeA") ELSE "storeU"

\* VectorizedCustomSympyPrinter._print_Function, lines 297-298
LoadInstr(v) == IF v.aligned THEN "loadA" ELSE "loadU"

\* vectorize replaces the access by a vector memory access
AdaptAccess ==
    /\ fnIn.op = "access" /\ fnOut = NoOutput
    /\ fnOut' = [status |-> "marked", access |-> vector_memory_access(fnIn), instr |-> "none"]
    /\ UNCHANGED <<fnIn, vecVars, printVars, pwVars, cudaVars>>

\* the access is the left-hand side of a printed assignment
PrintStore ==
    /\ fnIn.op = "access" /\ fnOut.status = "marked"
    /\ fnOut' = [fnOut EXCEPT !.status = "store", !.instr = StoreInstr(fnOut.access)]
    /\ UNCHANGED <<fnIn, vecVars, printVars, pwVars, cudaVars>>

\* the access is read in a printed expression
PrintLoad ==
    /\ fnIn.op = "access" /\ fnOut.status = "marked"
    /\ fnOut' = [fnOut EXCEPT !.status = "load", !.instr = LoadInstr(fnOut.access)]
    /\ UNCHANGED <<fnIn, vecVars, printVars, pwVars, cudaVars>>

InitAccess ==
    /\ fnIn \in [op : {"access"}, shift : (0 - MaxShift)..MaxShift, outer : 0..1,
                  assume_aligned : BOOLEAN, nontemporal : NontemporalArgs,
                  hasField : BOOLEAN]
    /\ fnOut = NoOutput
    /\ kin = IdleKin /\ kernel = IdleKernel /\ call = NoCall
    /\ selector = "None" /\ stacks = << >> /\ done = << >>
    /\ pw = << >> /\ pwOut = NoOutput
    /\ cin = << >> /\ cout = NoOutput

NextAccess == AdaptAccess \/ PrintStore \/ PrintLoad

SpecAccess == InitAccess /\ [][NextAccess]_vars

AccessMarked == fnIn.op = "access" /\ fnOut.status \in {"marked", "store", "load"}
AccessPrinted == fnIn.op = "access" /\ fnOut.status \in {"store", "load"}

\* C12: a vector memory access is marked aligned iff assume_aligned holds and
\* the index minus the loop counter is 0 with all loop counters at 0; hence
\* with assume_aligned false every printed load and store uses loadU / storeU.
C12_AlignedIffAssumedAndUnshifted ==
    /\ AccessMarked => (fnOut.access.aligned <=> (fnIn.assume_aligned /\ fnIn.shift = 0))
    /\ (AccessPrinted /\ ~fnIn.assume_aligned) => fnOut.instr \in {"loadU", "storeU"}

\* an unshifted access of a nontemporal field, stored without assume_aligned
C12_Witness ==
    /\ AccessPrinted /\ ~fnIn.assume_aligned /\ fnIn.shift = 0 /\ fnIn.outer = 1
    /\ fnIn.hasField /\ fnIn.nontemporal = "True"
    /\ fnOut.status = "store" /\ fnOut.instr = "storeU"

\* C13: every vector store to a field designated nontemporal (by field, by
\* name, or nontemporal=True) is printed with the stream intrinsic, for every
\* value of assume_aligned and every offset of the access.
C13_NontemporalStoreStreams ==
    (fnIn.op = "access" /\ fnOut.status = "store" /\ fnIn.hasField
         /\ InNontemporalFields(fnIn.nontemporal))
        => fnOut.instr = "stream"

(***************************************************************************)
(* Claims about vectorize and its padding mode (Part 1).                   *)
(***************************************************************************)
IteratesPastStop(ns) ==
    \E k \in 1..Len(ns) : \E j \in Iterations(ns[k]) : j >= OrigStop

\* the one loop left when no tail loop is made, its stop rounded up
PaddedLoop(ns, w) ==
    /\ Len(ns) = 1 /\ ns[1].kind = "loop" /\ ns[1].start = kin.start
    /\ ns[1].stop = kin.start + modulo_ceil(kin.len, w)

\* C14: vectorize (new variant) omits the tail loop and raises the stop to
\* start + the smallest multiple of the vector width >= stop - start exactly
\* when assume_sufficient_line_padding and assume_inner_stride_one are both
\* true; in every other configuration no loop iterates past the original stop.
C14_PaddingModeIffPaddingAndStrideOne ==
    (FirstCallDone /\ ~call.args.legacy /\ call.outcome = "ok")
        => IF call.args.padding /\ call.args.strideOne
           THEN PaddedLoop(kernel.loops, kernel.instruction_set.width)
           ELSE ~IteratesPastStop(kernel.loops)

(***************************************************************************)
(* Part 6: insert_vector_casts, visit_expr                                 *)
(***************************************************************************)
\* An expression is [op, args]:
\*   "s"      a scalar-typed symbol          "v"     a vector_memory_access
\*   "add"    sp.Add / sp.Mul                "rel"   a relational / boolean function
\*   "fast"   fast_division, fast_sqrt, fast_inv_sqrt, vec_any, vec_all
\*   "pow"    sp.Pow, args = <<base>>, the exponent a literal
\*   "func"   any other function call, as sin(x)
\*   "pw"     Piecewise((args[1], args[2]), (args[3], True))
\*   "cast"   cast_func(args[1], vector type)
Node(op, args) == [op |-> op, args |-> args]
ScalarSym == Node("s", << >>)
VectorAcc == Node("v", << >>)
Leaves == {ScalarSym, VectorAcc}

\* Numeric expressions and conditions (relationals over them) up to depth d
RECURSIVE NumExprs(_)
RECURSIVE CondExprs(_)
NumExprs(d) ==
    IF d = 0 THEN Leaves
    ELSE Leaves
         \cup {Node("add", <<a, b>>) : a \in NumExprs(d - 1), b \in Leaves}
         \cup {Node(op, <<a>>) : op \in {"fast", "pow", "func"}, a \in NumExprs(d - 1)}
         \cup {Node("pw", <<a, c, b>>) : a \in Leaves, c \in CondExprs(d - 1), b \in Leaves}
CondExprs(d) ==
    IF d = 0 THEN {}
    ELSE {Node("rel", <<a, b>>) : a \in NumExprs(d - 1), b \in Leaves}

Exprs(d) == NumExprs(d) \cup CondExprs(d)

\* get_type_of_expression: vector as soon as an operand is; a piecewise is
\* vector-typed if a branch value or a condition is
RECURSIVE IsVector(_)
IsVector(e) ==
    CASE e.op = "s" -> FALSE
      [] e.op \in {"v", "cast"} -> TRUE
      [] OTHER -> \E k \in 1..Len(e.args) : IsVector(e.args[k])

\* cast_func(a, target_type) if t != target_type else a, target a vector type
CastToVector(a) == IF IsVector(a) THEN a ELSE Node("cast", <<a>>)

\* the operators whose operands visit_expr visits and casts
HandledOps(legacy) == IF legacy THEN {"add", "rel"} ELSE {"add", "rel", "fast"}

RECURSIVE visit_expr(_, _)
visit_expr(e, legacy) ==
    IF e.op \in {"cast", "v"} THEN e
    ELSE IF e.op \in HandledOps(legacy)
    THEN LET new_args == [k \in 1..Len(e.args) |-> visit_expr(e.args[k], legacy)]
         IN IF ~\E k \in 1..Len(new_args) : IsVector(new_args[k])
            THEN e
            ELSE Node(e.op, [k \in 1..Len(new_args) |-> CastToVector(new_args[k])])
    ELSE IF e.op = "pow"
    THEN Node("pow", << visit_expr(e.args[1], legacy) >>)
    ELSE IF e.op = "pw"
    THEN LET r1 == visit_expr(e.args[1], legacy)
             c1 == visit_expr(e.args[2], legacy)
             r2 == visit_expr(e.args[3], legacy)
             condition_vector == IsVector(c1)
             result_vector == IsVector(e) \/ condition_vector
         IN Node("pw", << IF result_vector THEN CastToVector(r1) ELSE r1,
                          IF ~condition_vector /\ result_vector /\ ~legacy
                          THEN CastToVector(c1) ELSE c1,
                          IF result_vector THEN CastToVector(r2) ELSE r2 >>)
    ELSE e

\* pystencils/cpu/vectorization.py: insert_vector_casts on one right-hand side
insert_vector_casts ==
    /\ fnIn.op = "expr" /\ fnOut = NoOutput
    /\ fnOut' = [status |-> "casts", legacy |-> FALSE, e |-> visit_expr(fnIn.e, FALSE)]
    /\ UNCHANGED <<fnIn, vecVars, printVars, pwVars, cudaVars>>

\* cpu/vectorization.py: insert_vector_casts on one right-hand side
insert_vector_casts_legacy ==
    /\ fnIn.op = "expr" /\ fnOut = NoOutput
    /\ fnOut' = [status |-> "casts", legacy |-> TRUE, e |-> visit_expr(fnIn.e, TRUE)]
    /\ UNCHANGED <<fnIn, vecVars, printVars, pwVars, cudaVars>>

InitCasts ==
    /\ fnIn \in [op : {"expr"}, e : Exprs(MaxExprDepth)]
    /\ fnOut = NoOutput
    /\ kin = IdleKin /\ kernel = IdleKernel /\ call = NoCall
    /\ selector = "None" /\ stacks = << >> /\ done = << >>
    /\ pw = << >> /\ pwOut = NoOutput
    /\ cin = << >> /\ cout = NoOutput

NextCasts == insert_vector_casts \/ insert_vector_casts_legacy

SpecCasts == InitCasts /\ [][NextCasts]_vars

\* every add / mul / relational / boolean node of the tree that has a
\* vector-typed operand has only vector-typed operands
RECURSIVE UniformlyVector(_)
UniformlyVector(e) ==
    /\ (e.op \in {"add", "rel"} /\ \E k \in 1..Len(e.args) : IsVector(e.args[k]))
           => \A k \in 1..Len(e.args) : IsVector(e.args[k])
    /\ \A k \in 1..Len(e.args) : UniformlyVector(e.args[k])

\* every piecewise of the tree with a vector-typed condition has vector-typed
\* branch values
RECURSIVE VectorCondVectorResult(_)
VectorCondVectorResult(e) ==
    /\ (e.op = "pw" /\ IsVector(e.args[2])) => (IsVector(e.args[1]) /\ IsVector(e.args[3]))
    /\ \A k \in 1..Len(e.args) : VectorCondVectorResult(e.args[k])

\* C15: after insert_vector_casts every addition, multiplication, relational
\* or boolean node anywhere in a right-hand side (also below powers and
\* function calls) with a vector-typed operand has all operands vector-typed,
\* and a piecewise with a vector-typed condition has a vector-typed result.
C15_CastsMakeOperandsUniform ==
    (fnIn.op = "expr" /\ fnOut.status = "casts")
        => (UniformlyVector(fnOut.e) /\ VectorCondVectorResult(fnOut.e))

(***************************************************************************)
(* Part 7: insert_vector_casts, visit_node                                 *)
(***************************************************************************)
\* A block is a sequence of statements.  Statement k of the block is either
\* an assignment to the scalar-typed symbol k, or a conditional whose block
\* holds one assignment to a symbol of its own.  own: the right-hand side
\* holds a vector memory access.  reads: the symbols of the block defined
\* earlier that the right-hand side (the condition, for a conditional)
\* reads, each either in the expression itself ("expr") or inside the index
\* of a ResolvedFieldAccess ("index").  A conditional reads in its condition,
\* in its block, or the same symbol in both.
ReadSites == {"expr", "index"}
ReadChoices(k) ==
    {{}} \cup {{[sym |-> x, site |-> t]} : x \in 1..(k - 1), t \in ReadSites}
Assignment(own, reads) == [kind |-> "assign", own |-> own, reads |-> reads, body |-> << >>]
Conditional(reads, body) == [kind |-> "cond", own |-> FALSE, reads |-> reads, body |-> body]
StmtChoices(k) ==
    {Assignment(o, r) : o \in BOOLEAN, r \in ReadChoices(k)}
        \cup {Conditional(r, << Assignment(FALSE, {}) >>) : r \in ReadChoices(k)}
        \cup {Conditional({}, << Assignment(FALSE, b) >>) : b \in ReadChoices(k)}
        \cup {Conditional(r, << Assignment(FALSE, r) >>) : r \in ReadChoices(k)}

RECURSIVE Blocks(_)
Blocks(n) ==
    IF n = 0 THEN {<< >>}
    ELSE {Append(p, st) : p \in Blocks(n - 1), st \in StmtChoices(n)}

\* fast_subs(expr, substitution_dict, skip=lambda e: isinstance(e,
\* ast.ResolvedFieldAccess)): a read of a promoted symbol becomes a read of
\* its vector-typed variant, except inside a ResolvedFieldAccess
fast_subs(reads, substitution_dict) ==
    {[sym |-> r.sym, site |-> r.site,
      vec |-> r.site # "index" /\ r.sym \in substitution_dict] : r \in reads}

\* type(rhs_type) is VectorType; a ResolvedFieldAccess is scalar-typed
RhsIsVector(own, reads) == own \/ \E r \in reads : r.vec

\* mutant of Promote: the promoted symbol is not entered in substitution_dict
Promote_NotRecorded(substitution_dict, lhs, rhs_vector) == substitution_dict

\* lines 192-196: substitution_dict[assignment.lhs] = new_lhs
Promote(substitution_dict, lhs, rhs_vector) ==
    IF rhs_vector THEN substitution_dict \cup {lhs} ELSE substitution_dict

\* visit_node over the statements k.. of a block.  top: the block whose
\* symbols are numbered; a nested block works on a copy of substitution_dict
\* and its own symbol (0) is read nowhere else.
RECURSIVE visit_node(_, _, _, _)
visit_node(stmts, k, substitution_dict, top) ==
    IF k > Len(stmts) THEN << >>
    ELSE LET st == stmts[k]
             rd == fast_subs(st.reads, substitution_dict)
         IN IF st.kind = "assign"
            THEN LET rhs_vector == RhsIsVector(st.own, rd)
                 IN << [kind |-> "assign", promoted |-> rhs_vector, reads |-> rd,
                        body |-> << >>] >>
                    \o visit_node(stmts, k + 1,
                                  Promote(substitution_dict, IF top THEN k ELSE 0, rhs_vector),
                                  top)
            ELSE << [kind |-> "cond", promoted |-> FALSE, reads |-> rd,
                     body |-> visit_node(st.body, 1, substitution_dict, FALSE)] >>
                 \o visit_node(stmts, k + 1, substitution_dict, top)

\* insert_vector_casts on a block: visit_node(ast_node, {})
InsertCastsInBlock ==
    /\ fnIn.op = "block" /\ fnOut = NoOutput
    /\ fnOut' = [status |-> "block", stmts |-> visit_node(fnIn.stmts, 1, {}, TRUE)]
    /\ UNCHANGED <<fnIn, vecVars, printVars, pwVars, cudaVars>>

InitBlock ==
    /\ fnIn \in UNION { {[op |-> "block", stmts |-> b] : b \in Blocks(n)} : n \in 1..MaxStmts }
    /\ fnOut = NoOutput
    /\ kin = IdleKin /\ kernel = IdleKernel /\ call = NoCall
    /\ selector = "None" /\ stacks = << >> /\ done = << >>
    /\ pw = << >> /\ pwOut = NoOutput
    /\ cin = << >> /\ cout = NoOutput

NextBlock == InsertCastsInBlock

SpecBlock == InitBlock /\ [][NextBlock]_vars

BlockDone == fnIn.op = "block" /\ fnOut.status = "block"

\* the reads of statement k and of the block nested in it
ReadsAt(stmts, k) ==
    stmts[k].reads \cup UNION {stmts[k].body[j].reads : j \in 1..Len(stmts[k].body)}

PromotedBefore(stmts, x, k) == x < k /\ stmts[x].kind = "assign" /\ stmts[x].promoted

\* C16 as stated: every later read of a promoted symbol, in right-hand sides
\* of later assignments of the block or of nested blocks and in conditions of
\* later conditionals, refers to the vector-typed symbol.
C16_PromotedSymbolReadAsVector ==
    BlockDone
        => \A k \in 1..Len(fnOut.stmts) : \A r \in ReadsAt(fnOut.stmts, k) :
               PromotedBefore(fnOut.stmts, r.sym, k) => r.vec

\* C16 amended: every later read of a promoted symbol outside the index of a
\* ResolvedFieldAccess refers to the vector-typed symbol; and no symbol that
\* was not promoted is read as a vector.
C16_PromotedSymbolReadAsVectorOutsideIndex ==
    BlockDone
        => \A k \in 1..Len(fnOut.stmts) : \A r \in ReadsAt(fnOut.stmts, k) :
               /\ (PromotedBefore(fnOut.stmts, r.sym, k) /\ r.site = "expr") => r.vec
               /\ r.vec => PromotedBefore(fnOut.stmts, r.sym, k)

\* symbol 1 is promoted, read by assignment 2, which is promoted in turn and
\* read in the condition of conditional 3 and in the block nested in it
C16_Witness ==
    /\ BlockDone /\ Len(fnOut.stmts) = 3
    /\ fnOut.stmts[1].promoted /\ ~fnIn.stmts[2].own /\ fnOut.stmts[2].promoted
    /\ fnOut.stmts[3].kind = "cond"
    /\ \E r \in fnOut.stmts[3].reads : r.vec
    /\ \E r \in fnOut.stmts[3].body[1].reads : r.vec /\ r.sym = 2

(***************************************************************************)
(* Part 8: printing a power                                                *)
(***************************************************************************)
\* An exponent: a literal number, given by twice its value (integers and
\* odd halves such as 0.5), or a symbol (is_number false), which may be
\* declared integer.
Exponents ==
    {[is_number |-> TRUE, is_integer |-> t % 2 = 0, twice |-> t] :
         t \in (0 - 2 * MaxExp)..(2 * MaxExp)}
        \cup {[is_number |-> FALSE, is_integer |-> b, twice |-> 0] : b \in BOOLEAN}

\* mutant of SmallPositive: the upper limit 8 is included
SmallPositive_Inclusive(x) == x.is_integer /\ x.is_number /\ 0 < x.twice /\ x.twice <= 16

\* expr.exp.is_integer and expr.exp.is_number and 0 < expr.exp < 8
SmallPositive(x) == x.is_integer /\ x.is_number /\ 0 < x.twice /\ x.twice < 16
\* expr.exp.is_integer and expr.exp.is_number and - 8 < expr.exp < 0
SmallNegative(x) == x.is_integer /\ x.is_number /\ -16 < x.twice /\ x.twice < 0

\* the printed sp.Mul(*[expr.base] * n, evaluate=False): n factors
ProductText(n) == [op |-> "product", n |-> n]
PowText(op, arg) == [status |-> "text", text |-> [op |-> op, arg |-> arg]]

\* CustomSympyPrinter._print_Pow
Custom_print_Pow(x) ==
    IF SmallPositive(x) THEN PowText("paren", ProductText(x.twice \div 2))
    ELSE IF SmallNegative(x) THEN PowText("1 /", ProductText((0 - x.twice) \div 2))
    ELSE PowText("pow", NoText)

\* VectorizedCustomSympyPrinter._print_Pow
Vectorized_print_Pow(vec, x) ==
    IF ~vec THEN [printer |-> "scalar"] @@ Custom_print_Pow(x)     \* _scalarFallback
    ELSE [printer |-> "vector"] @@
         (IF SmallPositive(x) THEN PowText("paren", ProductText(x.twice \div 2))
          ELSE IF x.is_number /\ x.twice = -2 THEN PowText("makeVec(1.0) /", ProductText(1))
          ELSE IF x.is_number /\ x.twice = 1 THEN PowText("sqrt", ProductText(1))
          ELSE IF SmallNegative(x)
          THEN PowText("makeVec(1.0) /", ProductText((0 - x.twice) \div 2))
          ELSE [status |-> "ValueError", text |-> NoText])

\* a CBackend with a vector instruction set prints the power
PrintPowVectorized ==
    /\ fnIn.op = "pow" /\ fnOut = NoOutput
    /\ fnOut' = Vectorized_print_Pow(fnIn.vec, fnIn.exp)
    /\ UNCHANGED <<fnIn, vecVars, printVars, pwVars, cudaVars>>

\* a CBackend without one prints the power of a kernel not vectorized
PrintPowScalar ==
    /\ fnIn.op = "pow" /\ ~fnIn.vec /\ fnOut = NoOutput
    /\ fnOut' = [printer |-> "scalar"] @@ Custom_print_Pow(fnIn.exp)
    /\ UNCHANGED <<fnIn, vecVars, printVars, pwVars, cudaVars>>

InitPow ==
    /\ fnIn \in [op : {"pow"}, vec : BOOLEAN, exp : Exponents]
    /\ fnOut = NoOutput
    /\ kin = IdleKin /\ kernel = IdleKernel /\ call = NoCall
    /\ selector = "None" /\ stacks = << >> /\ done = << >>
    /\ pw = << >> /\ pwOut = NoOutput
    /\ cin = << >> /\ cout = NoOutput

NextPow == PrintPowVectorized \/ PrintPowScalar

SpecPow == InitPow /\ [][NextPow]_vars

PowPrinted == fnIn.op = "pow" /\ fnOut.status # "none"
\* the exponent is the integer literal e
IsIntLiteral(x, e) == x.is_number /\ x.twice = 2 * e
VectorPowSupported(x) ==
    \/ \E e \in 1..7 : IsIntLiteral(x, e) \/ IsIntLiteral(x, 0 - e)
    \/ x.is_number /\ x.twice = 1

\* C17: for a vector-typed power the vector printer raises ValueError unless
\* the exponent is an integer literal e with 0 < |e| < 8 or equals 0.5; for
\* 0 < e < 8 it emits the e-fold product, for -8 < e < 0 the division of a
\* broadcast 1.0 by the (-e)-fold product, for 0.5 the square root; a power
\* that is not vector-typed is printed by the scalar printer.
C17_VectorPowSmallIntegerOrSqrt ==
    PowPrinted
        => IF fnIn.vec
           THEN /\ fnOut.printer = "vector"
                /\ fnOut.status = "ValueError" <=> ~VectorPowSupported(fnIn.exp)
                /\ \A e \in 1..7 :
                       /\ IsIntLiteral(fnIn.exp, e)
                              => fnOut.text = [op |-> "paren", arg |-> ProductText(e)]
                       /\ IsIntLiteral(fnIn.exp, 0 - e)
                              => fnOut.text = [op |-> "makeVec(1.0) /", arg |-> ProductText(e)]
                /\ (fnIn.exp.is_number /\ fnIn.exp.twice = 1) => fnOut.text.op = "sqrt"
           ELSE fnOut.printer = "scalar" /\ fnOut.status = "text"

\* a vector-typed base to the power 8 is refused
C17_Witness ==
    PowPrinted /\ fnIn.vec /\ IsIntLiteral(fnIn.exp, 8) /\ fnOut.status = "ValueError"

(***************************************************************************)
(* Part 9: CustomCppCode and PrintNode                                     *)
(***************************************************************************)
Symbols == {"a", "b", "c"}

\* CustomCppCode.__init__ and its properties symbols_defined, undefined_symbols
CustomCppCode(symbols_read, symbols_defined) ==
    [status |-> "node",
     symbols_defined |-> symbols_defined,
     undefined_symbols |-> symbols_defined \ symbols_read]

\* PrintNode.__init__: symbols_read=[symbol_to_print], symbols_defined=set()
PrintNode(symbol_to_print) == CustomCppCode({symbol_to_print}, {})

NewCustomCppCode ==
    /\ fnIn.op = "CustomCppCode" /\ fnOut = NoOutput
    /\ fnOut' = CustomCppCode(fnIn.symbols_read, fnIn.symbols_defined)
    /\ UNCHANGED <<fnIn, vecVars, printVars, pwVars, cudaVars>>

NewPrintNode ==
    /\ fnIn.op = "PrintNode" /\ fnOut = NoOutput
    /\ \E x \in fnIn.symbols_read : fnOut' = PrintNode(x)
    /\ UNCHANGED <<fnIn, vecVars, printVars, pwVars, cudaVars>>

InitCustomCode ==
    /\ fnIn \in [op : {"CustomCppCode"}, symbols_read : SUBSET Symbols,
                  symbols_defined : SUBSET Symbols]
              \cup [op : {"PrintNode"}, symbols_read : {{x} : x \in Symbols},
                    symbols_defined : {{}}]
    /\ fnOut = NoOutput
    /\ kin = IdleKin /\ kernel = IdleKernel /\ call = NoCall
    /\ selector = "None" /\ stacks = << >> /\ done = << >>
    /\ pw = << >> /\ pwOut = NoOutput
    /\ cin = << >> /\ cout = NoOutput

NextCustomCode == NewCustomCppCode \/ NewPrintNode

SpecCustomCode == InitCustomCode /\ [][NextCustomCode]_vars

\* C18: for a CustomCppCode or PrintNode, undefined_symbols is the declared
\* read symbols minus the declared defined symbols; PrintNode(s) reports s
\* as undefined and defines nothing.
C18_UndefinedSymbolsAreReadMinusDefined ==
    (fnIn.op \in {"CustomCppCode", "PrintNode"} /\ fnOut.status = "node")
        => /\ fnOut.undefined_symbols = fnIn.symbols_read \ fnIn.symbols_defined
           /\ fnIn.op = "PrintNode"
                  => (fnOut.undefined_symbols = fnIn.symbols_read /\ fnOut.symbols_defined = {})

(***************************************************************************)
(* Part 10: printing a function call                                       *)
(***************************************************************************)
\* The printers by their language attribute
Dialects == {"C", "CUDA", "OpenCL"}
\* Functions called by name, as sympy.Function('wtf')(x)
FunctionNames == {"sqrt", "rsqrtf", "atomicAdd", "wtf"}
\* printer.known_functions: rsqrtf and atomicAdd are known to CUDA only,
\* wtf to no dialect
known_functions(d) == IF d = "CUDA" THEN {"sqrt", "rsqrtf", "atomicAdd"} ELSE {"sqrt"}
\* The operators of the IR that are sympy functions the printer prints itself
OperatorFunctions == {"cast_func", "modulo_floor", "bitwise_and"}
\* The first argument of the call: a symbol or a call by name of a symbol
ArgChoices == {"x"} \cup FunctionNames

CallText(how, f, arg) == [how |-> how, f |-> f, arg |-> arg]

\* CodePrinter._print_Function: a name of known_functions prints as a call;
\* any other goes to _print_not_supported, which records the expression and
\* returns str(expr)
sympy_print_Function(d, f, arg) ==
    IF f \in known_functions(d)
    THEN [text |-> CallText("call", f, arg.text), not_supported |-> arg.not_supported]
    ELSE [text |-> CallText("str", f, arg.str), not_supported |-> {f}]

\* self._print(arg) and str(arg) of the argument
PrintedArg(d, a) ==
    LET x == [text |-> NoText, str |-> NoText, not_supported |-> {}]
    IN IF a = "x" THEN x
       ELSE sympy_print_Function(d, a, x) @@ [str |-> CallText("str", a, NoText)]

\* CustomSympyPrinter._print_Function
Custom_print_Function(d, f, a) ==
    LET arg == PrintedArg(d, a)
    IN IF f = "cast_func"
       THEN [text |-> CallText("*((T *)(& a))", f, arg.text), not_supported |-> arg.not_supported]
       ELSE IF f = "modulo_floor"
       \* "({dtype})({0} / {1}) * {1}".format(*expr.args, ...): str of the arguments
       THEN [text |-> CallText("(T)(a / b) * b", f, arg.str), not_supported |-> {}]
       ELSE IF f = "bitwise_and"
       THEN [text |-> CallText("(a & b)", f, arg.text), not_supported |-> arg.not_supported]
       ELSE sympy_print_Function(d, f, arg)

\* CodePrinter.doprint: the printed expression, headed by the comment
\* "Not supported in <language>:" if an expression was recorded
doprint(d, f, a) ==
    LET r == Custom_print_Function(d, f, a)
    IN [status |-> "text", text |-> r.text,
        marker |-> IF r.not_supported # {} THEN "Not supported in" ELSE "",
        language |-> d]

PrintCall ==
    /\ fnIn.op = "call" /\ fnOut = NoOutput
    /\ fnOut' = doprint(fnIn.dialect, fnIn.f, fnIn.arg)
    /\ UNCHANGED <<fnIn, vecVars, printVars, pwVars, cudaVars>>

\* The assert of the modulo_floor branch: get_type_of_expression is applied to
\* the arguments; for an argument that is a call by name it may find an int
\* type (PrintCall goes on) or none (the print ends by the exception)
PrintCallAssertFails ==
    /\ fnIn.op = "call" /\ fnOut = NoOutput
    /\ fnIn.f = "modulo_floor" /\ fnIn.arg \in FunctionNames
    /\ fnOut' = [status |-> "AssertionError", text |-> NoText, marker |-> "",
                 language |-> fnIn.dialect]
    /\ UNCHANGED <<fnIn, vecVars, printVars, pwVars, cudaVars>>

InitCall ==
    /\ fnIn \in [op : {"call"}, dialect : Dialects,
                  f : FunctionNames \cup OperatorFunctions, arg : ArgChoices]
    /\ fnOut = NoOutput
    /\ kin = IdleKin /\ kernel = IdleKernel /\ call = NoCall
    /\ selector = "None" /\ stacks = << >> /\ done = << >>
    /\ pw = << >> /\ pwOut = NoOutput
    /\ cin = << >> /\ cout = NoOutput

NextCall == PrintCall \/ PrintCallAssertFails

SpecCall == InitCall /\ [][NextCall]_vars

CallPrinted == fnIn.op = "call" /\ fnOut.status # "none"
\* the expression holds a call by name of a function the dialect does not know
HasUnknownCall ==
    \E g \in {fnIn.f, fnIn.arg} : g \in FunctionNames \ known_functions(fnIn.dialect)

\* C19: printing a call to a function whose name is not in the dialect's
\* known-function list does not raise, and the emitted text carries the
\* 'Not supported in <language>' marker ('Not supported in CUDA' for CUDA).
C19_UnknownFunctionIsMarked ==
    (CallPrinted /\ HasUnknownCall)
        => /\ fnOut.status = "text"
           /\ fnOut.marker = "Not supported in" /\ fnOut.language = fnIn.dialect

(***************************************************************************)
(* Part 11: the OpenCL printer and the thread indexing symbols             *)
(***************************************************************************)
\* Most parts a symbol name splits into at its dots
MaxParts == 3
\* The parts of the names: the CUDA indexing names, the dimensions, and one
\* of each kind that no table holds
NameParts == {"blockIdx", "threadIdx", "blockDim", "gridDim", "warpIdx", "x", "y", "z", "w"}
\* symbol_name.split("."): a name is kept as the sequence of its parts
SymbolNames == UNION {[1..n -> NameParts] : n \in 1..MaxParts}

DIMENSION_MAPPING == [x |-> "0", y |-> "1", z |-> "2"]

INDEXING_FUNCTION_MAPPING ==
    [blockIdx |-> "get_group_id", threadIdx |-> "get_local_id",
     blockDim |-> "get_local_size", gridDim |-> "get_global_size"]

\* A variant that emits an unmapped part as it stands
OpenCl_print_ThreadIndexingSymbol_Default(symbol_name) ==
    IF Len(symbol_name) # 2 THEN [status |-> "ValueError"]
    ELSE LET function_name == symbol_name[1]
             dimension == symbol_name[2]
         IN [status |-> "text",
             text |-> [function_name |->
                           IF function_name \in DOMAIN INDEXING_FUNCTION_MAPPING
                           THEN INDEXING_FUNCTION_MAPPING[function_name]
                           ELSE function_name,
                       dimension |->
                           IF dimension \in DOMAIN DIMENSION_MAPPING
                           THEN DIMENSION_MAPPING[dimension] ELSE dimension]]

\* OpenClSympyPrinter._print_ThreadIndexingSymbol: the text is
\* f"{function_name}({dimension})", kept as its two fields
OpenCl_print_ThreadIndexingSymbol(symbol_name) ==
    IF Len(symbol_name) # 2 THEN [status |-> "ValueError"]
    ELSE LET function_name == symbol_name[1]
             dimension == symbol_name[2]
         IN IF dimension \notin DOMAIN DIMENSION_MAPPING
            THEN [status |-> "KeyError", key |-> dimension]
            ELSE IF function_name \notin DOMAIN INDEXING_FUNCTION_MAPPING
            THEN [status |-> "KeyError", key |-> function_name]
            ELSE [status |-> "text",
                  text |-> [function_name |-> INDEXING_FUNCTION_MAPPING[function_name],
                            dimension |-> DIMENSION_MAPPING[dimension]]]

PrintThreadIndexingSymbol ==
    /\ fnIn.op = "index" /\ fnOut = NoOutput
    /\ fnOut' = OpenCl_print_ThreadIndexingSymbol(fnIn.name)
    /\ UNCHANGED <<fnIn, vecVars, printVars, pwVars, cudaVars>>

InitIndexing ==
    /\ fnIn \in [op : {"index"}, name : SymbolNames]
    /\ fnOut = NoOutput
    /\ kin = IdleKin /\ kernel = IdleKernel /\ call = NoCall
    /\ selector = "None" /\ stacks = << >> /\ done = << >>
    /\ pw = << >> /\ pwOut = NoOutput
    /\ cin = << >> /\ cout = NoOutput

NextIndexing == PrintThreadIndexingSymbol

SpecIndexing == InitIndexing /\ [][NextIndexing]_vars

\* a symbol named '<f>.<d>' has been printed
IndexingPrinted == fnIn.op = "index" /\ fnOut.status # "none" /\ Len(fnIn.name) = 2
\* the text the claim expects for the mapped names
ExpectedFunction(f) ==
    CASE f = "blockIdx" -> "get_group_id" [] f = "threadIdx" -> "get_local_id"
      [] f = "blockDim" -> "get_local_size" [] f = "gridDim" -> "get_global_size"
ExpectedDimension(d) == CASE d = "x" -> "0" [] d = "y" -> "1" [] d = "z" -> "2"

\* C20: an indexing symbol '<f>.<d>' with f in {blockIdx, threadIdx, blockDim,
\* gridDim} and d in {x, y, z} prints as '<mapped f>(<0|1|2>)' (threadIdx.x as
\* get_local_id(0)); if f or d is in neither table the print fails with a
\* lookup error and emits no text.
C20_IndexingSymbolMappedOrLookupError ==
    IndexingPrinted =>
        LET f == fnIn.name[1]
            d == fnIn.name[2]
        IN IF f \in {"blockIdx", "threadIdx", "blockDim", "gridDim"} /\ d \in {"x", "y", "z"}
           THEN /\ fnOut.status = "text"
                /\ fnOut.text = [function_name |-> ExpectedFunction(f),
                                 dimension |-> ExpectedDimension(d)]
           ELSE fnOut.status = "KeyError"

\* threadIdx.x has been printed as get_local_id(0)
C20_Witness ==
    /\ IndexingPrinted
    /\ fnIn.name = <<"threadIdx", "x">>
    /\ fnOut = [status |-> "text", text |-> [function_name |-> "get_local_id", dimension |-> "0"]]

(***************************************************************************)
(* Part 12: created_indexed_cuda_kernel                                    *)
(***************************************************************************)
MaxIndexFields == 2   \* index fields passed to a call
MaxUser == 2          \* assignments passed to a call

\* Names of struct elements that may hold a coordinate
CoordNames == {"x", "y", "z"}
\* spatial_dimensions of the non-index fields of the assignments
SpatialDims == 1..Cardinality(CoordNames)
\* coordinate_names: any tuple of names
CoordinateNameTuples == UNION {[1..n -> CoordNames] : n \in 0..Cardinality(CoordNames)}
\* The struct data type of an index field, by the elements it has
StructTypes == {{"x", "y", "z"}, {"x", "y"}, {"z"}, {}}
IndexFieldLists == UNION {[1..n -> StructTypes] : n \in 0..MaxIndexFields}

\* A variant that takes every name of coordinate_names
SliceNames_All(coordinate_names, spatial_coordinates) == coordinate_names

\* coordinate_names[:spatial_coordinates]
SliceNames(coordinate_names, spatial_coordinates) ==
    SubSeq(coordinate_names, 1,
           IF spatial_coordinates < Len(coordinate_names)
           THEN spatial_coordinates ELSE Len(coordinate_names))

\* get_coordinate_symbol_assignment(name): the first index field whose struct
\* has the element, 0 if there is none (ValueError)
FieldWithElement(index_fields, name) ==
    IF \E i \in 1..Len(index_fields) : name \in index_fields[i]
    THEN CHOOSE i \in 1..Len(index_fields) :
             /\ name \in index_fields[i]
             /\ \A j \in 1..(i - 1) : name \notin index_fields[j]
    ELSE 0

get_coordinate_symbol_assignment(index_fields, name) ==
    [kind |-> "coordinate", lhs |-> name, field |-> FieldWithElement(index_fields, name),
     element |-> name]

UserAssignments(n) == [i \in 1..n |-> [kind |-> "user", lhs |-> "user", field |-> 0, element |-> "none"]]

\* created_indexed_cuda_kernel, to the body of the kernel it returns
created_indexed_cuda_kernel(dims, index_fields, coordinate_names, n) ==
    IF Cardinality(dims) # 1 THEN [status |-> "AssertionError"]
    ELSE LET spatial_coordinates == CHOOSE d \in dims : TRUE
             names == SliceNames(coordinate_names, spatial_coordinates)
             coordinate_symbol_assignments ==
                 [i \in 1..Len(names) |-> get_coordinate_symbol_assignment(index_fields, names[i])]
         IN IF \E i \in 1..Len(names) : coordinate_symbol_assignments[i].field = 0
            THEN [status |-> "ValueError"]
            \* list(index_fields)[0]
            ELSE IF Len(index_fields) = 0 THEN [status |-> "IndexError"]
            \* resolve_field_accesses subscripts coordinate_typed_symbols by
            \* every spatial coordinate of a non-index field
            ELSE IF Len(coordinate_symbol_assignments) < spatial_coordinates
            THEN [status |-> "IndexError"]
            ELSE [status |-> "ast",
                  body |-> coordinate_symbol_assignments \o UserAssignments(n)]

CreateIndexedKernel ==
    /\ fnIn.op = "indexed" /\ fnOut = NoOutput
    /\ fnOut' = created_indexed_cuda_kernel(fnIn.dims, fnIn.index_fields,
                                           fnIn.coordinate_names, fnIn.n)
    /\ UNCHANGED <<fnIn, vecVars, printVars, pwVars, cudaVars>>

InitIndexed ==
    /\ fnIn \in [op : {"indexed"}, dims : SUBSET SpatialDims \ {{}},
                 index_fields : IndexFieldLists,
                 coordinate_names : CoordinateNameTuples, n : 1..MaxUser]
    /\ fnOut = NoOutput
    /\ kin = IdleKin /\ kernel = IdleKernel /\ call = NoCall
    /\ selector = "None" /\ stacks = << >> /\ done = << >>
    /\ pw = << >> /\ pwOut = NoOutput
    /\ cin = << >> /\ cout = NoOutput

NextIndexed == CreateIndexedKernel

SpecIndexed == InitIndexed /\ [][NextIndexed]_vars

IndexedReturned == fnIn.op = "indexed" /\ fnOut.status = "ast"
\* the number of spatial dimensions of the non-index fields
SpatialD == CHOOSE d \in fnIn.dims : TRUE

MaxSub == 2     \* subexpressions of a collection
MaxCtr == 1     \* symbols a name generator has handed out before the merge

\* A symbol: xi_1, xi_2 (the names SymbolGen makes), d_1, d_2 (defined by main
\* equations) and the free symbol p_0
Sym(base, n) == [base |-> base, n |-> n]
EqSymbols == {Sym("xi", 1), Sym("xi", 2), Sym("d", 1), Sym("d", 2)}
\* A right-hand side, by the set of symbols in it
RhsChoices == {{}, {Sym("p", 0)}, {Sym("xi", 1)}}
Eq(lhs, rhs) == [lhs |-> lhs, rhs |-> rhs]
SubexpressionLists ==
    UNION {[1..n -> {Eq(l, r) : l \in EqSymbols, r \in RhsChoices}] : n \in 0..MaxSub}

\* EquationCollection(equations, subExpressions): _ctr of its SymbolGen
EquationCollection(equations, subExpressions, ctr) ==
    [mainEquations |-> equations, subexpressions |-> subExpressions, ctr |-> ctr]

allEquations(c) == c.subexpressions \o c.mainEquations

\* the condition asserted by boundSymbols: no symbol assigned twice
InSSAForm(c) ==
    \A i, j \in 1..Len(allEquations(c)) :
        allEquations(c)[i].lhs = allEquations(c)[j].lhs => i = j

definedSymbols(c) == {c.mainEquations[i].lhs : i \in 1..Len(c.mainEquations)}

\* fastSubs on a symbol, a right-hand side and an equation; substitutionDict
\* is a set of pairs <<old, new>> with one pair per old symbol
SubsSymbol(s, substitutionDict) ==
    IF \E p \in substitutionDict : p[1] = s
    THEN (CHOOSE p \in substitutionDict : p[1] = s)[2]
    ELSE s
fastSubsRhs(rhs, substitutionDict) == {SubsSymbol(s, substitutionDict) : s \in rhs}
fastSubsEq(eq, substitutionDict) ==
    Eq(SubsSymbol(eq.lhs, substitutionDict), fastSubsRhs(eq.rhs, substitutionDict))

\* substitutionDict[old] = new
SetItem(substitutionDict, old, new) ==
    {p \in substitutionDict : p[1] # old} \cup {<<old, new>>}

\* SymbolGen.__next__ after ctr symbols: xi_<ctr + 1>
NextSymbol(ctr) == Sym("xi", ctr + 1)

\* the loop of merge over other.subexpressions, from the k-th on
RECURSIVE MergeSubexpressions(_, _, _, _, _, _)
MergeSubexpressions(own, others, k, substitutionDict, processed, ctr) ==
    IF k > Len(others)
    THEN [processed |-> processed, substitutionDict |-> substitutionDict]
    ELSE LET e == others[k]
             ownRhs == {own[i].rhs : i \in {j \in 1..Len(own) : own[j].lhs = e.lhs}}
         IN IF ownRhs # {}
            THEN IF e.rhs \in ownRhs
                 THEN MergeSubexpressions(own, others, k + 1, substitutionDict, processed, ctr)
                 ELSE MergeSubexpressions(own, others, k + 1,
                          SetItem(substitutionDict, e.lhs, NextSymbol(ctr)),
                          Append(processed,
                                 Eq(NextSymbol(ctr), fastSubsRhs(e.rhs, substitutionDict))),
                          ctr + 1)
            ELSE MergeSubexpressions(own, others, k + 1, substitutionDict,
                                     Append(processed, fastSubsEq(e, substitutionDict)), ctr)

\* EquationCollection.merge
merge(self, other) ==
    IF definedSymbols(self) \cap definedSymbols(other) # {}
    THEN [status |-> "AssertionError"]
    ELSE LET m == MergeSubexpressions(self.subexpressions, other.subexpressions, 1,
                                      {}, << >>, self.ctr)
             processedOtherMainEquations ==
                 [i \in 1..Len(other.mainEquations) |->
                      fastSubsEq(other.mainEquations[i], m.substitutionDict)]
         IN [status |-> "collection",
             mainEquations |-> self.mainEquations \o processedOtherMainEquations,
             subexpressions |-> self.subexpressions \o m.processed]

Merge ==
    /\ fnIn.op = "merge" /\ fnOut = NoOutput
    /\ fnOut' = merge(fnIn.self, fnIn.other)
    /\ UNCHANGED <<fnIn, vecVars, printVars, pwVars, cudaVars>>

InitMerge ==
    /\ fnIn \in {[op |-> "merge", self |-> s, other |-> o] :
                   s \in {c \in {EquationCollection(<< Eq(Sym("d", 1), r) >>, subs, n) :
                                   r \in {{}, {Sym("xi", 1)}}, subs \in SubexpressionLists,
                                   n \in 0..MaxCtr} : InSSAForm(c)},
                   o \in {c \in {EquationCollection(<< Eq(Sym("d", m), {Sym("xi", 1)}) >>, subs, 0) :
                                   m \in 1..2, subs \in SubexpressionLists} : InSSAForm(c)}}
    /\ fnOut = NoOutput
    /\ kin = IdleKin /\ kernel = IdleKernel /\ call = NoCall
    /\ selector = "None" /\ stacks = << >> /\ done = << >>
    /\ pw = << >> /\ pwOut = NoOutput
    /\ cin = << >> /\ cout = NoOutput

NextMerge == Merge

SpecMerge == InitMerge /\ [][NextMerge]_vars

\* C22: merging two collections in SSA form whose main equations define
\* disjoint symbols gives a collection in SSA form: over its subexpressions
\* and main equations every left-hand symbol is defined exactly once.
C22_MergeKeepsSSAForm ==
    (fnIn.op = "merge" /\ fnOut.status # "none"
        /\ definedSymbols(fnIn.self) \cap definedSymbols(fnIn.other) = {})
        => fnOut.status = "collection" /\ InSSAForm(fnOut)

(***************************************************************************)
(* Part 14: EquationCollection.getDependentSymbols                         *)
(***************************************************************************)
MaxStartSymbols == 2   \* length of symbolSequence

DepSymbols == {"a", "b", "c"}
\* eqMap = {e.lhs: e.rhs for e in self.allEquations} of a collection that
\* defines each symbol at most once: <<TRUE, atoms of the rhs>> for a defined
\* symbol, <<FALSE, {}>> for a free one.  Definitions may be cyclic.
EqMaps ==
    [DepSymbols -> {<<FALSE, {}>>} \cup {<<TRUE, r>> : r \in SUBSET DepSymbols}]
SymbolSequences == UNION {[1..n -> DepSymbols] : n \in 0..MaxStartSymbols}

\* The orders in which a set may be iterated
Orderings(S) ==
    {q \in [1..Cardinality(S) -> S] : \A i, j \in 1..Cardinality(S) : q[i] = q[j] => i = j}

\* A variant that appends nothing
addSymbolsFromExpr_Nothing(queue, order) == queue

\* addSymbolsFromExpr: queue.append(ds) for ds in expr.atoms(sp.Symbol)
addSymbolsFromExpr(queue, order) == queue \o order

\* queue = list(symbolSequence); handledSymbols = set()
DependentStart ==
    /\ fnIn.op = "dependent" /\ fnOut = NoOutput
    /\ fnOut' = [status |-> "loop", queue |-> fnIn.symbolSequence, handledSymbols |-> {}]
    /\ UNCHANGED <<fnIn, vecVars, printVars, pwVars, cudaVars>>

\* one pass of the while loop
DependentLoop ==
    /\ fnIn.op = "dependent" /\ fnOut.status = "loop" /\ Len(fnOut.queue) > 0
    /\ LET e == Head(fnOut.queue)
           rest == Tail(fnOut.queue)
       IN IF e \in fnOut.handledSymbols
          THEN fnOut' = [fnOut EXCEPT !.queue = rest]
          ELSE \E order \in Orderings(IF fnIn.eqMap[e][1] THEN fnIn.eqMap[e][2] ELSE {}) :
                   fnOut' = [fnOut EXCEPT !.queue = addSymbolsFromExpr(rest, order),
                                          !.handledSymbols = @ \cup {e}]
    /\ UNCHANGED <<fnIn, vecVars, printVars, pwVars, cudaVars>>

\* return handledSymbols
DependentReturn ==
    /\ fnIn.op = "dependent" /\ fnOut.status = "loop" /\ Len(fnOut.queue) = 0
    /\ fnOut' = [fnOut EXCEPT !.status = "returned"]
    /\ UNCHANGED <<fnIn, vecVars, printVars, pwVars, cudaVars>>

InitDependent ==
    /\ fnIn \in [op : {"dependent"}, eqMap : EqMaps, symbolSequence : SymbolSequences]
    /\ fnOut = NoOutput
    /\ kin = IdleKin /\ kernel = IdleKernel /\ call = NoCall
    /\ selector = "None" /\ stacks = << >> /\ done = << >>
    /\ pw = << >> /\ pwOut = NoOutput
    /\ cin = << >> /\ cout = NoOutput

NextDependent == DependentStart \/ DependentLoop \/ DependentReturn

\* the call runs on: one thread executes the loop
SpecDependent == InitDependent /\ [][NextDependent]_vars /\ WF_vars(NextDependent)

\* the symbols reachable from S by following right-hand sides of definitions
RECURSIVE ReachableFrom(_, _)
ReachableFrom(eqMap, S) ==
    LET T == S \cup UNION {eqMap[s][2] : s \in {x \in S : eqMap[x][1]}}
    IN IF T = S THEN S ELSE ReachableFrom(eqMap, T)

StartSymbols == {fnIn.symbolSequence[i] : i \in 1..Len(fnIn.symbolSequence)}

MaxWriters == 2   \* with-statements open on the same file_path at a time
MaxChunks == 2    \* writes the body makes when it runs to its end

Writers == 1..MaxWriters
\* The content of a file: who wrote it and how many of the body's writes it
\* holds; the destination starts with its previous, whole content
PreviousContent == [by |-> 0, chunks |-> 0, whole |-> TRUE]

\* A variant that renames whatever happened in the body
AfterWith_Always(body_ok, flush_ok) == "rename"

\* Leaving 'with NamedTemporaryFile(...) as f': an exception of the body or of
\* the finally clause propagates, else the rename of the next line is reached
AfterWith(body_ok, flush_ok) == IF body_ok /\ flush_ok THEN "rename" ELSE "raised"

\* NamedTemporaryFile(delete=False, dir=target_folder, mode='w'); yield f
EnterWith(w) ==
    /\ fnIn.op = "atomic" /\ fnOut.writers[w].pc = "idle"
    /\ fnOut' = [fnOut EXCEPT !.writers[w] =
                     [pc |-> "body", buffered |-> 0, on_disk |-> 0, body_ok |-> FALSE,
                      flush_ok |-> FALSE, fsynced |-> FALSE, closed |-> FALSE, renames |-> 0]]
    /\ UNCHANGED <<fnIn, vecVars, printVars, pwVars, cudaVars>>

\* the body writes to f; the buffer may spill to the temporary file
BodyWrite(w) ==
    /\ fnIn.op = "atomic" /\ fnOut.writers[w].pc = "body"
    /\ fnOut.writers[w].buffered < fnIn.total
    /\ \E spill \in BOOLEAN :
           fnOut' = [fnOut EXCEPT !.writers[w].buffered = @ + 1,
                                  !.writers[w].on_disk = IF spill THEN fnOut.writers[w].buffered + 1 ELSE @]
    /\ UNCHANGED <<fnIn, vecVars, printVars, pwVars, cudaVars>>

\* the body runs to its end
BodyEnd(w) ==
    /\ fnIn.op = "atomic" /\ fnOut.writers[w].pc = "body"
    /\ fnOut.writers[w].buffered = fnIn.total
    /\ fnOut' = [fnOut EXCEPT !.writers[w].pc = "finally", !.writers[w].body_ok = TRUE]
    /\ UNCHANGED <<fnIn, vecVars, printVars, pwVars, cudaVars>>

\* the body raises, at any point
BodyRaise(w) ==
    /\ fnIn.op = "atomic" /\ fnOut.writers[w].pc = "body"
    /\ fnOut' = [fnOut EXCEPT !.writers[w].pc = "finally"]
    /\ UNCHANGED <<fnIn, vecVars, printVars, pwVars, cudaVars>>

\* finally: f.flush(), which may raise (the with-statement is then left)
Flush(w) ==
    /\ fnIn.op = "atomic" /\ fnOut.writers[w].pc = "finally"
    /\ \E ok \in BOOLEAN :
           fnOut' = [fnOut EXCEPT !.writers[w].pc = IF ok THEN "fsync" ELSE "exit",
                                  !.writers[w].flush_ok = ok,
                                  !.writers[w].on_disk = IF ok THEN fnOut.writers[w].buffered ELSE @]
    /\ UNCHANGED <<fnIn, vecVars, printVars, pwVars, cudaVars>>

\* finally: os.fsync(f.fileno())
Fsync(w) ==
    /\ fnIn.op = "atomic" /\ fnOut.writers[w].pc = "fsync"
    /\ fnOut' = [fnOut EXCEPT !.writers[w].pc = "exit", !.writers[w].fsynced = TRUE]
    /\ UNCHANGED <<fnIn, vecVars, printVars, pwVars, cudaVars>>

\* __exit__ of the NamedTemporaryFile: the file is closed
ExitWith(w) ==
    /\ fnIn.op = "atomic" /\ fnOut.writers[w].pc = "exit"
    /\ fnOut' = [fnOut EXCEPT !.writers[w].pc = AfterWith(fnOut.writers[w].body_ok,
                                                         fnOut.writers[w].flush_ok),
                              !.writers[w].closed = TRUE]
    /\ UNCHANGED <<fnIn, vecVars, printVars, pwVars, cudaVars>>

\* os.rename(f.name, file_path): the destination is the temporary file
Rename(w) ==
    /\ fnIn.op = "atomic" /\ fnOut.writers[w].pc = "rename"
    /\ fnOut' = [fnOut EXCEPT !.writers[w].pc = "done",
                              !.writers[w].renames = @ + 1,
                              !.dest = [by |-> w, chunks |-> fnOut.writers[w].on_disk,
                                        whole |-> /\ fnOut.writers[w].on_disk = fnIn.total
                                                  /\ fnOut.writers[w].body_ok
                                                  /\ fnOut.writers[w].fsynced
                                                  /\ fnOut.writers[w].closed]]
    /\ UNCHANGED <<fnIn, vecVars, printVars, pwVars, cudaVars>>

InitAtomic ==
    /\ fnIn \in [op : {"atomic"}, total : 1..MaxChunks]
    /\ fnOut = [status |-> "files", dest |-> PreviousContent,
                writers |-> [w \in Writers |-> [pc |-> "idle", buffered |-> 0, on_disk |-> 0,
                                                body_ok |-> FALSE, flush_ok |-> FALSE,
                                                fsynced |-> FALSE, closed |-> FALSE,
                                                renames |-> 0]]]
    /\ kin = IdleKin /\ kernel = IdleKernel /\ call = NoCall
    /\ selector = "None" /\ stacks = << >> /\ done = << >>
    /\ pw = << >> /\ pwOut = NoOutput
    /\ cin = << >> /\ cout = NoOutput

NextAtomic ==
    \E w \in Writers :
        \/ EnterWith(w) \/ BodyWrite(w) \/ BodyEnd(w) \/ BodyRaise(w)
        \/ Flush(w) \/ Fsync(w) \/ ExitWith(w) \/ Rename(w)

SpecAtomic == InitAtomic /\ [][NextAtomic]_vars

\* C23: the destination is replaced only by a rename made after the body
\* ended without exception and the temporary file was flushed, fsynced and
\* closed, at most once per with-statement; after a raising body there is no
\* rename and the destination keeps its content; the destination never holds
\* partially written content.
C23_DestinationReplacedOnlyByWholeFile ==
    fnIn.op = "atomic" =>
        /\ fnOut.dest.whole
        /\ fnOut.dest.chunks = (IF fnOut.dest.by = 0 THEN 0 ELSE fnIn.total)
        /\ \A w \in Writers :
               /\ fnOut.writers[w].renames <= 1
               /\ fnOut.writers[w].renames = 1
                      => /\ fnOut.writers[w].body_ok /\ fnOut.writers[w].flush_ok
                         /\ fnOut.writers[w].fsynced /\ fnOut.writers[w].closed
               /\ (fnOut.writers[w].pc \in {"finally", "fsync", "exit", "raised"}
                       /\ ~fnOut.writers[w].body_ok)
                      => fnOut.writers[w].renames = 0 /\ fnOut.dest.by # w

\* one with-statement has renamed its whole file to the destination while
\* the body of the other raised after a write that reached its temporary file
C23_Witness ==
    /\ fnIn.op = "atomic" /\ fnIn.total = 2
    /\ fnOut.dest.by = 1 /\ fnOut.writers[1].pc = "done"
    /\ fnOut.writers[2].pc = "raised" /\ fnOut.writers[2].on_disk = 1

(***************************************************************************)
(* Part 16: LinearEquationSystem                                           *)
(***************************************************************************)
MaxOps == 4    \* calls made on one system
MaxEqs == 2    \* equations passed to one add_equations call

\* A system in one unknown x: a row of _matrix is <<coefficient of x, affine
\* part>>.  An equation a*x - c (+ z, with z no unknown of the system) has a
\* and c in 0..1, which keeps the reduced row echelon form in integers.
LinearEquations == [a : 0..1, c : 0..1, foreign : BOOLEAN]
ZeroRow == <<0, 0>>
IsZeroRow(row) == \A j \in 1..Len(row) : row[j] = 0

\* Matrix.row(i) and item assignment with Python's indices: -1 is the last row
PyRow(m, i) == IF i < 0 THEN Len(m) + i + 1 ELSE i + 1

\* _resize_if_necessary(new_rows): row_insert of new_rows zero rows at the end
resize_if_necessary(s, new_rows) ==
    IF s.next_zero_row + new_rows > Len(s.matrix)
    THEN [s EXCEPT !.matrix = @ \o [i \in 1..new_rows |-> ZeroRow]]
    ELSE s

\* Matrix.rref()[0] of a matrix of two columns whose first column is in 0..1
rref(m) ==
    LET n == Len(m)
        withX == {i \in 1..n : m[i][1] # 0}
        zeros(k) == [i \in 1..k |-> ZeroRow]
    IN IF withX # {}
       THEN LET p == CHOOSE i \in withX : \A j \in withX : i <= j
                c == m[p][2]
            IN IF \E i \in 1..n : m[i][2] - m[i][1] * c # 0
               THEN << <<1, 0>>, <<0, 1>> >> \o zeros(n - 2)
               ELSE << <<1, c>> >> \o zeros(n - 1)
       ELSE IF \E i \in 1..n : m[i][2] # 0
       THEN << <<0, 1>> >> \o zeros(n - 1)
       ELSE zeros(n)

\* _update_next_zero_row: the loop from result = shape[0] down; it runs while
\* result >= 0 and checks row result - 1
RECURSIVE update_next_zero_row(_, _)
update_next_zero_row(m, result) ==
    IF result < 0 THEN result
    ELSE IF ~IsZeroRow(m[PyRow(m, result - 1)]) THEN result
    ELSE update_next_zero_row(m, result - 1)

\* reduce
reduce(s) ==
    IF s.reduced THEN s
    ELSE LET r == rref(s.matrix)
         IN [s EXCEPT !.matrix = r,
                      !.next_zero_row = update_next_zero_row(r, Len(r)),
                      !.reduced = TRUE]

\* add_equation.  With a symbol that is no unknown the call raises after the
\* coefficients were written and next_zero_row was advanced.
add_equation(s0, eq) ==
    LET s == resize_if_necessary(s0, 1)
        zero_row_idx == PyRow(s.matrix, s.next_zero_row)
    IN IF eq.foreign
       THEN [s EXCEPT !.matrix[zero_row_idx][1] = eq.a,
                      !.next_zero_row = @ + 1,
                      !.raised = TRUE]
       ELSE [s EXCEPT !.matrix[zero_row_idx] = <<eq.a, eq.c>>,
                      !.next_zero_row = @ + 1,
                      !.reduced = FALSE]

\* add_equations: the loop stops at the first equation that raises
RECURSIVE add_each(_, _, _)
add_each(s, eqs, k) ==
    IF k > Len(eqs) \/ s.raised THEN s ELSE add_each(add_equation(s, eqs[k]), eqs, k + 1)

add_equations(s, eqs) == add_each(resize_if_necessary(s, Len(eqs)), eqs, 1)

\* set_unknown_zero(unknown_idx)
set_unknown_zero(s0, unknown_idx) ==
    LET s == resize_if_necessary(s0, 1)
    IN [s EXCEPT !.matrix[PyRow(s.matrix, s.next_zero_row)][unknown_idx + 1] = 1,
                 !.next_zero_row = @ + 1,
                 !.reduced = FALSE]

\* a call starts: the outcome of the last call is forgotten (rank: the value
\* the last call returned, if it read rank)
BeforeCall(s) == [s EXCEPT !.ops = @ + 1, !.raised = FALSE, !.rank = << >>]

AddEquation ==
    /\ fnIn.op = "les" /\ fnOut.ops < MaxOps
    /\ \E eq \in LinearEquations : fnOut' = add_equation(BeforeCall(fnOut), eq)
    /\ UNCHANGED <<fnIn, vecVars, printVars, pwVars, cudaVars>>

AddEquations ==
    /\ fnIn.op = "les" /\ fnOut.ops < MaxOps
    /\ \E n \in 0..MaxEqs : \E eqs \in [1..n -> LinearEquations] :
           fnOut' = add_equations(BeforeCall(fnOut), eqs)
    /\ UNCHANGED <<fnIn, vecVars, printVars, pwVars, cudaVars>>

SetUnknownZero ==
    /\ fnIn.op = "les" /\ fnOut.ops < MaxOps
    /\ fnOut' = set_unknown_zero(BeforeCall(fnOut), 0)
    /\ UNCHANGED <<fnIn, vecVars, printVars, pwVars, cudaVars>>

\* the property rank: reduce, then next_zero_row
ReadRank ==
    /\ fnIn.op = "les" /\ fnOut.ops < MaxOps
    /\ LET s == reduce(BeforeCall(fnOut))
       IN fnOut' = [s EXCEPT !.rank = <<s.next_zero_row>>]
    /\ UNCHANGED <<fnIn, vecVars, printVars, pwVars, cudaVars>>

\* LinearEquationSystem([x])
InitLES ==
    /\ fnIn = [op |-> "les"]
    /\ fnOut = [status |-> "system", matrix |-> << ZeroRow >>, next_zero_row |-> 0,
                reduced |-> TRUE, ops |-> 0, raised |-> FALSE, rank |-> << >>]
    /\ kin = IdleKin /\ kernel = IdleKernel /\ call = NoCall
    /\ selector = "None" /\ stacks = << >> /\ done = << >>
    /\ pw = << >> /\ pwOut = NoOutput
    /\ cin = << >> /\ cout = NoOutput

NextLES == AddEquation \/ AddEquations \/ SetUnknownZero \/ ReadRank

SpecLES == InitLES /\ [][NextLES]_vars

NonZeroRows(m) == Cardinality({i \in 1..Len(m) : ~IsZeroRow(m[i])})

\* C28: after any sequence of add_equation, add_equations and set_unknown_zero
\* calls, identically zero equations included, rank is between 0 and the
\* number of matrix rows and is the number of non-zero rows of the reduced
\* row echelon form, and next_zero_row is never negative.
C28_RankCountsNonZeroRows ==
    fnIn.op = "les" =>
        /\ fnOut.next_zero_row >= 0
        /\ fnOut.rank # << >>
               => /\ fnOut.rank[1] \in 0..Len(fnOut.matrix)
                  /\ fnOut.rank[1] = NonZeroRows(rref(fnOut.matrix))

(***************************************************************************)
(* Part 17: SerialDataHandling, on the target 'cpu'                        *)
(***************************************************************************)
MaxGhost == 2      \* largest ghost-layer count

ArrayNames == {"f", "g"}
\* values_per_cell of the arrays: scalar and vector
ValuesPerCell == {1, 3}
\* An array, by its shape: spatial extents and the trailing index extent (0
\* if there is none); a dictionary maps every name to an array or to NoArray
NoArray == [present |-> FALSE, shape |-> << >>, index |-> 0]
NoInfo == [present |-> FALSE, ghost_layers |-> 0, values_per_cell |-> 0]

\* kwargs['shape'] of add_array
ArrayOf(domain_size, ghost_layers, values_per_cell) ==
    [present |-> TRUE,
     shape |-> [d \in 1..Len(domain_size) |-> domain_size[d] + 2 * ghost_layers],
     index |-> IF values_per_cell > 1 THEN values_per_cell ELSE 0]

\* self._field_information[name] = {...}, before the array is created
RecordInfo(dh, name, info) == [dh EXCEPT !.field_information[name] = info]

\* add_array(name, values_per_cell, ghost_layers=ghost_layers, cpu=cpu), gpu
\* left at its default (False on the target 'cpu')
add_array(dh0, name, values_per_cell, ghost_layers, cpu) ==
    LET dh == RecordInfo(dh0, name, [present |-> TRUE, ghost_layers |-> ghost_layers,
                                    values_per_cell |-> values_per_cell])
        cpu_arr == ArrayOf(dh.domain_size, ghost_layers, values_per_cell)
    IN IF cpu /\ dh.cpu_arrays[name].present
       THEN [dh EXCEPT !.last = "ValueError"]
       ELSE LET dh1 == IF cpu THEN [dh EXCEPT !.cpu_arrays[name] = cpu_arr] ELSE dh
            IN IF name \in dh1.fields
               THEN [dh1 EXCEPT !.last = "AssertionError"]
               ELSE [dh1 EXCEPT !.fields = @ \cup {name}, !.last = "returned"]

\* remove_ghost_layers(arr, index_dimensions, ghost_layers): arr[k:-k] in
\* every spatial dimension if k > 0
remove_ghost_layers(arr, k) ==
    IF k <= 0 THEN arr
    ELSE [arr EXCEPT !.shape = [d \in DOMAIN arr.shape |->
                                    IF arr.shape[d] > 2 * k THEN arr.shape[d] - 2 * k ELSE 0]]

\* the iter_dict of the SerialBlock that iterate(ghost_layers=g) yields
iterate(dh, ghost_layers) ==
    [name \in ArrayNames |->
         IF ~dh.cpu_arrays[name].present THEN NoArray
         ELSE LET field_gls == dh.field_information[name].ghost_layers
              IN IF field_gls < ghost_layers THEN NoArray
                 ELSE remove_ghost_layers(dh.cpu_arrays[name], field_gls - ghost_layers)]

\* a call starts
BeforeDataCall(dh, call_name) == [dh EXCEPT !.call = call_name, !.last = "none", !.block = << >>]

\* ghost_layers=None, written -1 here: self.default_ghost_layers
AddArray ==
    /\ fnIn.op = "data"
    /\ \E name \in ArrayNames, v \in ValuesPerCell, gl \in (-1)..MaxGhost, cpu \in BOOLEAN :
           fnOut' = add_array(BeforeDataCall(fnOut, "add_array"), name, v,
                              IF gl = -1 THEN fnOut.default_ghost_layers ELSE gl, cpu)
    /\ UNCHANGED <<fnIn, vecVars, printVars, pwVars, cudaVars>>

\* add_array_like: add_array(name, cpu=cpu,
\* **self._field_information[name_of_template_field])
AddArrayLike ==
    /\ fnIn.op = "data"
    /\ \E name \in ArrayNames, template \in ArrayNames, cpu \in BOOLEAN :
           LET dh == BeforeDataCall(fnOut, "add_array")
               info == dh.field_information[template]
           IN fnOut' = IF ~info.present THEN [dh EXCEPT !.last = "KeyError"]
                       ELSE add_array(dh, name, info.values_per_cell, info.ghost_layers, cpu)
    /\ UNCHANGED <<fnIn, vecVars, printVars, pwVars, cudaVars>>

\* swap(name1, name2)
Swap ==
    /\ fnIn.op = "data"
    /\ \E name1 \in ArrayNames, name2 \in ArrayNames :
           LET dh == BeforeDataCall(fnOut, "swap")
               arrays == dh.cpu_arrays
           IN fnOut' = IF ~arrays[name1].present \/ ~arrays[name2].present
                       THEN [dh EXCEPT !.last = "KeyError"]
                       ELSE [dh EXCEPT !.cpu_arrays = [arrays EXCEPT ![name1] = arrays[name2],
                                                                     ![name2] = arrays[name1]],
                                       !.last = "returned"]
    /\ UNCHANGED <<fnIn, vecVars, printVars, pwVars, cudaVars>>

\* iterate(ghost_layers=g); ghost_layers=True, the default and written -1
\* here, stands for default_ghost_layers
Iterate ==
    /\ fnIn.op = "data"
    /\ \E g \in (-1)..MaxGhost :
           LET dh == BeforeDataCall(fnOut, "iterate")
               ghost_layers == IF g = -1 THEN dh.default_ghost_layers ELSE g
           IN fnOut' = [dh EXCEPT !.last = "returned",
                                  !.block = << [g |-> g, ghost_layers |-> ghost_layers,
                                                iter_dict |-> iterate(dh, ghost_layers)] >>]
    /\ UNCHANGED <<fnIn, vecVars, printVars, pwVars, cudaVars>>

\* SerialDataHandling(domain_size, default_ghost_layers)
InitData ==
    /\ fnIn = [op |-> "data"]
    /\ fnOut \in [status : {"data"}, domain_size : {<<2, 3>>}, default_ghost_layers : 0..1,
                  field_information : {[n \in ArrayNames |-> NoInfo]},
                  cpu_arrays : {[n \in ArrayNames |-> NoArray]},
                  fields : {{}}, call : {"none"}, last : {"none"}, block : {<< >>}]
    /\ kin = IdleKin /\ kernel = IdleKernel /\ call = NoCall
    /\ selector = "None" /\ stacks = << >> /\ done = << >>
    /\ pw = << >> /\ pwOut = NoOutput
    /\ cin = << >> /\ cout = NoOutput

NextData == AddArray \/ AddArrayLike \/ Swap \/ Iterate

SpecData == InitData /\ [][NextData]_vars

\* ghost_layers_of_field(name), values_per_cell(name)
ghost_layers_of_field(dh, name) == dh.field_information[name].ghost_layers
values_per_cell(dh, name) == dh.field_information[name].values_per_cell
\* the shape implied by the recorded field information of a name
ImpliedArray(dh, name) ==
    ArrayOf(dh.domain_size, ghost_layers_of_field(dh, name), values_per_cell(dh, name))
\* the ghost-layer count an array was created with
OwnGhostLayers(dh, arr) == (arr.shape[1] - dh.domain_size[1]) \div 2

Iterated == fnIn.op = "data" /\ fnOut.block # << >>
\* what the block of iterate(ghost_layers=g) is to hold for the array arr
ExpectedInBlock(dh, arr, g) ==
    IF OwnGhostLayers(dh, arr) >= g
    THEN [arr EXCEPT !.shape = [d \in DOMAIN arr.shape |-> dh.domain_size[d] + 2 * g]]
    ELSE NoArray

\* C24 as stated: the block of iterate(ghost_layers=g) holds every registered
\* array of at least g ghost layers with spatial extent domain_size[d] + 2*g
\* and its index dimension unchanged, and no array of fewer ghost layers;
\* the default argument stands for default_ghost_layers.
C24_IterateBlockHoldsArraysWithGhostLayers ==
    Iterated =>
        LET b == fnOut.block[1]
        IN /\ b.g = -1 => b.ghost_layers = fnOut.default_ghost_layers
           /\ \A name \in ArrayNames :
                  fnOut.cpu_arrays[name].present
                      => b.iter_dict[name] = ExpectedInBlock(fnOut, fnOut.cpu_arrays[name],
                                                             b.ghost_layers)

\* The same holds of every array that is stored under a name whose recorded
\* field information is the one the array was created with: iterate is right
\* as long as no call has set the two apart.
IterateRightForArraysStoredAsRegistered ==
    Iterated =>
        LET b == fnOut.block[1]
        IN /\ b.g = -1 => b.ghost_layers = fnOut.default_ghost_layers
           /\ \A name \in ArrayNames :
                  (fnOut.cpu_arrays[name].present
                       /\ fnOut.cpu_arrays[name] = ImpliedArray(fnOut, name))
                      => b.iter_dict[name] = ExpectedInBlock(fnOut, fnOut.cpu_arrays[name],
                                                             b.ghost_layers)

\* C26: after any sequence of add_array, add_array_like and swap calls the
\* array stored under each name has the shape implied by the name's recorded
\* field information: domain_size[d] + 2*ghost_layers_of_field(name) in each
\* spatial dimension, and a trailing dimension values_per_cell(name) if that
\* is greater than 1.
C26_StoredArrayHasRecordedShape ==
    fnIn.op = "data" =>
        \A name \in ArrayNames :
            fnOut.cpu_arrays[name].present
                => fnOut.cpu_arrays[name] = ImpliedArray(fnOut, name)

\* C27: an add_array call rejected because an array or a symbolic field of
\* that name exists leaves the data handling as it was: field information,
\* stored arrays and fields.
C27_RejectedAddArrayChangesNothing ==
    [][(fnIn.op = "data" /\ fnOut'.call = "add_array"
            /\ fnOut'.last \in {"ValueError", "AssertionError"})
           => /\ fnOut'.field_information = fnOut.field_information
              /\ fnOut'.cpu_arrays = fnOut.cpu_arrays
              /\ fnOut'.fields = fnOut.fields]_vars

\* ---------------------------------------------------------------------------
\* Part 18: SerialDataHandling._synchronizationFunctor, reached through
\* synchronizationFunctionCPU and synchronizationFunctionGPU
\* (src/datahandling.py), on a two-dimensional domain.
\* ---------------------------------------------------------------------------

MaxNames == 2
MaxGls == 2

SyncNames == {"a", "b"}
SyncTargets == {"cpu", "gpu"}

\* names: one name (a str) or a sequence of names
NameArguments ==
    [is_str : {TRUE}, names : [1..1 -> SyncNames]]
        \cup [is_str : {FALSE}, names : UNION {[1..n -> SyncNames] : n \in 0..MaxNames}]

\* if not hasattr(names, '__len__') or type(names) is str: names = [names]
NormalizedNames(arg) == arg.names

\* getStencil('D2Q9'): the nine directions of the two-dimensional full stencil
getStencil_D2Q9 == {<<x, y>> : x \in -1..1, y \in -1..1}

\* the directions that are not the centre and have no component along a
\* non-periodic dimension
filteredStencil(periodicity) ==
    {direction \in getStencil_D2Q9 :
        /\ direction # <<0, 0>>
        /\ \A d \in 1..2 : ~(~periodicity[d] /\ direction[d] # 0)}

\* the loop 'for name in names': one functor per name, built with the
\* ghost-layer count of that name; nothing is appended on an empty stencil
RECURSIVE resultFunctors(_, _, _)
resultFunctors(names, fieldInformation, stencil) ==
    IF names = << >> \/ stencil = {} THEN << >>
    ELSE <<[ghostLayers |-> fieldInformation[Head(names)], stencil |-> stencil]>>
             \o resultFunctors(Tail(names), fieldInformation, stencil)

\* the variable 'name' of the enclosing call after the loop has ended
NameAfterLoop(names) == IF names = << >> THEN "unbound" ELSE names[Len(names)]

\* resultFunctor(): for func in resultFunctors: func(pdfs=arrays[name]), with
\* 'name' read from the variable of the enclosing call at the time
\* when resultFunctor runs; the arrays are self.cpuArrays on the target 'cpu'
\* and self.gpuArrays on the target 'gpu'
ArraysOfTarget(target) == IF target = "cpu" THEN "cpuArrays" ELSE "gpuArrays"
resultFunctor(functors, name, target) ==
    [i \in 1..Len(functors) |->
         [func |-> functors[i], arrays |-> ArraysOfTarget(target), pdfs |-> name]]

\* synchronizationFunctionCPU(names) / synchronizationFunctionGPU(names)
SynchronizationFunction ==
    /\ fnIn.op = "sync"
    /\ fnOut.status = "start"
    /\ LET names == NormalizedNames(fnIn.names)
       IN fnOut' = [status |-> "created",
                    resultFunctors |-> resultFunctors(names, fnIn.fieldInformation,
                                                      filteredStencil(fnIn.periodicity)),
                    name |-> NameAfterLoop(names),
                    applied |-> << >>]
    /\ UNCHANGED <<fnIn, vecVars, printVars, pwVars, cudaVars>>

\* one invocation of the returned function
InvokeResultFunctor ==
    /\ fnIn.op = "sync"
    /\ fnOut.status \in {"created", "invoked"}
    /\ fnOut' = [fnOut EXCEPT !.status = "invoked",
                              !.applied = resultFunctor(fnOut.resultFunctors, fnOut.name,
                                                       fnIn.target)]
    /\ UNCHANGED <<fnIn, vecVars, printVars, pwVars, cudaVars>>

InitSync ==
    /\ fnIn \in [op : {"sync"}, names : NameArguments, target : SyncTargets,
                 fieldInformation : [SyncNames -> 1..MaxGls],
                 periodicity : [1..2 -> BOOLEAN]]
    /\ fnOut = [status |-> "start", resultFunctors |-> << >>, name |-> "unbound",
                applied |-> << >>]
    /\ kin = IdleKin /\ kernel = IdleKernel /\ call = NoCall
    /\ selector = "None" /\ stacks = << >> /\ done = << >>
    /\ pw = << >> /\ pwOut = NoOutput
    /\ cin = << >> /\ cout = NoOutput

NextSync == SynchronizationFunction \/ InvokeResultFunctor

SpecSync == InitSync /\ [][NextSync]_vars

SyncInvoked == fnIn.op = "sync" /\ fnOut.status = "invoked"

\* C25: one invocation of the function returned for a list of names applies,
\* for each listed name, the periodic copy built with that array's
\* ghost-layer count to that same array, once per listed name, in a domain
\* that is periodic in some direction.
C25_EachListedArraySynchronizedWithOwnFunctor ==
    (SyncInvoked /\ filteredStencil(fnIn.periodicity) # {}) =>
        LET names == NormalizedNames(fnIn.names)
        IN fnOut.applied =
               [i \in 1..Len(names) |->
                    [func |-> [ghostLayers |-> fnIn.fieldInformation[names[i]],
                               stencil |-> filteredStencil(fnIn.periodicity)],
                     arrays |-> ArraysOfTarget(fnIn.target),
                     pdfs |-> names[i]]]

\* With a single name, or with the same name in every position, the
\* invocation is as claimed.
SyncRightForOneName ==
    (SyncInvoked /\ filteredStencil(fnIn.periodicity) # {}
         /\ \A i \in DOMAIN fnIn.names.names : fnIn.names.names[i] = fnOut.name) =>
        \A i \in DOMAIN fnOut.applied :
            /\ fnOut.applied[i].pdfs = fnIn.names.names[i]
            /\ fnOut.applied[i].func.ghostLayers = fnIn.fieldInformation[fnIn.names.names[i]]

\* ---------------------------------------------------------------------------
\* Part 19: the base buffer index of create_cuda_kernel
\* (src/gpucuda/kernelcreation.py), computed for the cells of the iteration
\* space one after the other.
\* ---------------------------------------------------------------------------

MaxExtent == 3
MaxAccesses == 2

\* list(fields_without_buffers)[0].shape, of one to three dimensions
BufferShapes == UNION {[1..dim -> 1..MaxExtent] : dim \in 1..3}

\* the values of indexing.coordinates inside the field: 0 <= c_d < s_d
CellsOf(shape) == {c \in [DOMAIN shape -> 0..(MaxExtent - 1)] : \A d \in DOMAIN shape : c[d] < shape[d]}

\* for idx, var in enumerate(loop_vars[1:]):
\*     stride *= loop_strides[idx]; base_buffer_index += var * stride
RECURSIVE AddStrided_StrideNotAccumulated(_, _, _, _, _)
AddStrided_StrideNotAccumulated(loop_vars, loop_strides, idx, stride, base_buffer_index) ==
    IF idx + 2 > Len(loop_vars) THEN base_buffer_index
    ELSE LET new_stride == loop_strides[idx + 1]
         IN AddStrided_StrideNotAccumulated(loop_vars, loop_strides, idx + 1, new_stride,
                                            base_buffer_index + loop_vars[idx + 2] * new_stride)
RECURSIVE AddStrided(_, _, _, _, _)
AddStrided(loop_vars, loop_strides, idx, stride, base_buffer_index) ==
    IF idx + 2 > Len(loop_vars) THEN base_buffer_index
    ELSE LET new_stride == stride * loop_strides[idx + 1]
         IN AddStrided(loop_vars, loop_strides, idx + 1, new_stride,
                       base_buffer_index + loop_vars[idx + 2] * new_stride)

\* loop_vars = [num_buffer_accesses * i for i in indexing.coordinates];
\* base_buffer_index = loop_vars[0]; stride = 1; the loop above
base_buffer_index(num_buffer_accesses, coordinates, loop_strides) ==
    LET loop_vars == [i \in DOMAIN coordinates |-> num_buffer_accesses * coordinates[i]]
    IN AddStrided(loop_vars, loop_strides, 0, 1, loop_vars[1])

\* the kernel body runs for one more cell; the last two cells are kept
ComputeBaseBufferIndex ==
    /\ fnIn.op = "buffer"
    /\ \E c \in CellsOf(fnIn.shape) :
           fnOut' = [previous |-> fnOut.last,
                     last |-> <<[cell |-> c,
                                 index |-> base_buffer_index(fnIn.num_buffer_accesses, c,
                                                             fnIn.shape)]>>]
    /\ UNCHANGED <<fnIn, vecVars, printVars, pwVars, cudaVars>>

InitBuffer ==
    /\ fnIn \in [op : {"buffer"}, shape : BufferShapes, num_buffer_accesses : 0..MaxAccesses]
    /\ fnOut = [previous |-> << >>, last |-> << >>]
    /\ kin = IdleKin /\ kernel = IdleKernel /\ call = NoCall
    /\ selector = "None" /\ stacks = << >> /\ done = << >>
    /\ pw = << >> /\ pwOut = NoOutput
    /\ cin = << >> /\ cout = NoOutput

NextBuffer == ComputeBaseBufferIndex

SpecBuffer == InitBuffer /\ [][NextBuffer]_vars

TwoCellsIndexed == fnIn.op = "buffer" /\ fnOut.previous # << >> /\ fnOut.last # << >>
\* n * (c0 + c1*s0 + c2*s0*s1), over the dimensions the field has
ClaimedIndex(n, c, s) ==
    n * (c[1] + (IF Len(c) >= 2 THEN c[2] * s[1] ELSE 0)
              + (IF Len(c) >= 3 THEN c[3] * s[1] * s[2] ELSE 0))

\* C29: the base buffer index is n*(c0 + c1*s0 + c2*s0*s1), and for any two
\* distinct cells with 0 <= c_d < s_d the two indexes differ by at least n,
\* the number of buffer accesses.
C29_DistinctCellsAtLeastNApart ==
    TwoCellsIndexed =>
        LET a == fnOut.previous[1]
            b == fnOut.last[1]
        IN /\ b.index = ClaimedIndex(fnIn.num_buffer_accesses, b.cell, fnIn.shape)
           /\ a.cell # b.cell => Abs(a.index - b.index) >= fnIn.num_buffer_accesses

\* two cells of a three-dimensional field that differ in every coordinate,
\* with the largest number of accesses
C29_Witness ==
    /\ TwoCellsIndexed
    /\ Len(fnIn.shape) = 3
    /\ fnIn.num_buffer_accesses = MaxAccesses
    /\ \A d \in 1..3 : fnOut.previous[1].cell[d] # fnOut.last[1].cell[d]
    /\ fnOut.previous[1].index > fnOut.last[1].index

====
